---- MODULE Spec2Model ----
(***************************************************************************)
(* Cargo stowage engine: Container (src/Model/container.js), the placement  *)
(* service (src/unnamed/part_001), the retrieval service                    *)
(* (src/services/retrieval-service.js), the in-memory database              *)
(* (src/unnamed/part_004), the placement route (src/unnamed/part_005), the  *)
(* Item model (src/unnamed/part_000), the simulation service                *)
(* (src/unnamed/part_002) and the waste service (src/unnamed/part_003).     *)
(***************************************************************************)
EXTENDS Integers, Sequences, FiniteSets, TLC

\* ------------------------------------------------------------------ bounds
\* Service calls in one run of the whole store (Spec, SpecService).
MaxOps == 3
\* Longest item batch of one placement request.
MaxBatch == 3
\* Most records one Container object is grown to (SpecContainer), and most
\* records in the containers handed to the second pass (SpecResolve).
MaxRecords == 3
\* Longest list of unplaced items handed to the second pass (SpecResolve).
MaxUnplaced == 2
\* Largest weight budget of a return plan (SpecWaste).
MaxWeight == 3
\* Most days one simulateDays call is asked to simulate (SpecClock).
MaxDays == 2

\* ------------------------------------------------------------- value space
\* JavaScript null for an object-valued field, and for an id-valued field.
Null == [null |-> TRUE]
NoId == "null"

ItemIds == {"V", "W", "X", "Y", "Z"}
ContainerIds == {"c1", "c2", "c3"}

\* Item specifications a client may send (POST /api/placement body, CSV rows).
ItemSpecs ==
  { [itemId |-> "W", width |-> 2, depth |-> 2, height |-> 1, priority |-> 9, preferredZone |-> "A"],
    [itemId |-> "X", width |-> 2, depth |-> 1, height |-> 1, priority |-> 5, preferredZone |-> "A"],
    [itemId |-> "Y", width |-> 1, depth |-> 1, height |-> 1, priority |-> 1, preferredZone |-> "B"],
    [itemId |-> "Z", width |-> 1, depth |-> 1, height |-> 1, priority |-> 1, preferredZone |-> "A"] }

\* Container specifications a client may send.
ContainerSpecs ==
  { [containerId |-> "c1", zone |-> "A", width |-> 2, depth |-> 2, height |-> 1],
    [containerId |-> "c2", zone |-> "B", width |-> 1, depth |-> 1, height |-> 1] }

\* The containers a request to the planner may name, and those a Container
\* object is constructed from: the two above and a second container of zone
\* A, one wide, two deep and two high.
PlanContainerSpecs ==
  ContainerSpecs \cup
    { [containerId |-> "c3", zone |-> "A", width |-> 1, depth |-> 2, height |-> 2] }

StoreContainerIds == { s.containerId : s \in ContainerSpecs }

\* The part of the catalogue the whole-store runs draw from.
StoreItemSpecs == { s \in ItemSpecs : s.itemId \in {"Y", "Z"} }
ServiceItemSpecs == { s \in ItemSpecs : s.itemId \in {"X", "Y", "Z"} }

\* A third unit item, of Y's and Z's priority, for requests that send three.
UnitItemSpecs ==
  StoreItemSpecs \cup
    { [itemId |-> "V", width |-> 1, depth |-> 1, height |-> 1, priority |-> 1, preferredZone |-> "B"] }

CatalogueIds == { s.itemId : s \in ItemSpecs }

ItemSpecOf(id) == CHOOSE s \in ItemSpecs \cup UnitItemSpecs : s.itemId = id
ContainerSpecOf(id) == CHOOSE s \in ContainerSpecs : s.containerId = id

\* A position object {startCoordinates, endCoordinates}.
Pos(x, y, z, w, d, h) ==
  [startCoordinates |-> [width |-> x, depth |-> y, height |-> z],
   endCoordinates |-> [width |-> x + w, depth |-> y + d, height |-> z + h]]

\* Positions a caller may pass to placeItem and addItem: boxes one or two
\* wide at integer origins, some outside every container or with a negative
\* start.
Positions ==
  { Pos(x, y, 0, w, 1, 1) : x \in (0 - 1)..1, y \in 0..1, w \in 1..2 }

\* Positions a caller may pass to the methods of one Container object: those
\* above and boxes one wide, one deep and one or two high on two levels.
ObjectPositions ==
  Positions \cup { Pos(0, y, z, 1, 1, h) : y \in 0..1, z \in 0..1, h \in 1..2 }

\* ------------------------------------------------------------------- Item
\* JavaScript null for a number-valued or date-valued field.
NullNumber == 0 - 1

\* new Item(spec): containerId and position default to null. A spec that
\* carries mass, expiryDate and usageLimit gives an item with these fields
\* and with remainingUses = usageLimit, no remainingUses being given.
NewItem(spec) ==
  IF "usageLimit" \in DOMAIN spec
  THEN [itemId |-> spec.itemId, width |-> spec.width, depth |-> spec.depth,
        height |-> spec.height, priority |-> spec.priority,
        preferredZone |-> spec.preferredZone, containerId |-> NoId, position |-> Null,
        mass |-> spec.mass, expiryDate |-> spec.expiryDate,
        usageLimit |-> spec.usageLimit, remainingUses |-> spec.usageLimit]
  ELSE [itemId |-> spec.itemId, width |-> spec.width, depth |-> spec.depth,
        height |-> spec.height, priority |-> spec.priority,
        preferredZone |-> spec.preferredZone, containerId |-> NoId, position |-> Null]

\* item.isExpired(currentDate): false without an expiry date.
isExpired(item, date) ==
  /\ "expiryDate" \in DOMAIN item
  /\ item.expiryDate # NullNumber
  /\ item.expiryDate < date

\* item.isOutOfUses(): remainingUses <= 0, which JavaScript finds true of
\* null (converted to 0) and false of undefined.
isOutOfUses(item) ==
  /\ "remainingUses" \in DOMAIN item
  /\ (item.remainingUses = NullNumber \/ item.remainingUses <= 0)

isWaste(item, date) == isExpired(item, date) \/ isOutOfUses(item)

\* item.use() without the test remainingUses > 0.
useUnguarded(item) ==
  IF "remainingUses" \in DOMAIN item /\ item.remainingUses # NullNumber
  THEN [item EXCEPT !.remainingUses = @ - 1]
  ELSE item

\* item.use(): remainingUses-- when remainingUses > 0, which is false of
\* null and of undefined.
use(item) ==
  IF "remainingUses" \in DOMAIN item /\ item.remainingUses # NullNumber
     /\ item.remainingUses > 0
  THEN [item EXCEPT !.remainingUses = @ - 1]
  ELSE item

\* item.getVolume().
getVolume(item) == item.width * item.depth * item.height

\* ------------------------------------------------------------- Container
\* new Container(spec) with no items given.
NewContainer(spec) ==
  [containerId |-> spec.containerId, zone |-> spec.zone, width |-> spec.width,
   depth |-> spec.depth, height |-> spec.height, items |-> << >>]

\* The record items.push({...item, position}) stores.
Rec(item, position) ==
  [itemId |-> item.itemId, width |-> item.width, depth |-> item.depth,
   height |-> item.height, priority |-> item.priority, position |-> position]

RECURSIVE SumVolume(_, _)
SumVolume(recs, i) ==
  IF i > Len(recs) THEN 0
  ELSE recs[i].width * recs[i].depth * recs[i].height + SumVolume(recs, i + 1)

getTotalVolume(c) == c.width * c.depth * c.height
getOccupiedVolume(c) == SumVolume(c.items, 1)
getAvailableVolume(c) == getTotalVolume(c) - getOccupiedVolume(c)

\* itemsOverlap with the second depth test comparing start against start.
itemsOverlapStartDepth(pos1, pos2) ==
  ~ ( \/ pos1.endCoordinates.width <= pos2.startCoordinates.width
      \/ pos1.startCoordinates.width >= pos2.endCoordinates.width
      \/ pos1.endCoordinates.depth <= pos2.startCoordinates.depth
      \/ pos1.startCoordinates.depth >= pos2.startCoordinates.depth
      \/ pos1.endCoordinates.height <= pos2.startCoordinates.height
      \/ pos1.startCoordinates.height >= pos2.endCoordinates.height )

\* itemsOverlap with strict comparisons: boxes sharing a face count as overlapping.
itemsOverlapTouching(pos1, pos2) ==
  ~ ( \/ pos1.endCoordinates.width < pos2.startCoordinates.width
      \/ pos1.startCoordinates.width > pos2.endCoordinates.width
      \/ pos1.endCoordinates.depth < pos2.startCoordinates.depth
      \/ pos1.startCoordinates.depth > pos2.endCoordinates.depth
      \/ pos1.endCoordinates.height < pos2.startCoordinates.height
      \/ pos1.startCoordinates.height > pos2.endCoordinates.height )

itemsOverlap(pos1, pos2) ==
  ~ ( \/ pos1.endCoordinates.width <= pos2.startCoordinates.width
      \/ pos1.startCoordinates.width >= pos2.endCoordinates.width
      \/ pos1.endCoordinates.depth <= pos2.startCoordinates.depth
      \/ pos1.startCoordinates.depth >= pos2.endCoordinates.depth
      \/ pos1.endCoordinates.height <= pos2.startCoordinates.height
      \/ pos1.startCoordinates.height >= pos2.endCoordinates.height )

\* canFitItem without the tests of the end coordinates against the container.
canFitItemStartOnly(c, item, position) ==
  IF \/ position.startCoordinates.width < 0
     \/ position.startCoordinates.depth < 0
     \/ position.startCoordinates.height < 0
  THEN FALSE
  ELSE \A i \in 1..Len(c.items) : ~ itemsOverlap(c.items[i].position, position)

\* canFitItem with the overlap test skipping the records of the item's own id.
canFitItemOwnRecordIgnored(c, item, position) ==
  IF \/ position.startCoordinates.width < 0
     \/ position.startCoordinates.depth < 0
     \/ position.startCoordinates.height < 0
     \/ position.endCoordinates.width > c.width
     \/ position.endCoordinates.depth > c.depth
     \/ position.endCoordinates.height > c.height
  THEN FALSE
  ELSE \A i \in 1..Len(c.items) :
         \/ c.items[i].itemId = item.itemId
         \/ ~ itemsOverlap(c.items[i].position, position)

canFitItem(c, item, position) ==
  IF \/ position.startCoordinates.width < 0
     \/ position.startCoordinates.depth < 0
     \/ position.startCoordinates.height < 0
     \/ position.endCoordinates.width > c.width
     \/ position.endCoordinates.depth > c.depth
     \/ position.endCoordinates.height > c.height
  THEN FALSE
  ELSE \A i \in 1..Len(c.items) : ~ itemsOverlap(c.items[i].position, position)

\* addItem without the canFitItem test: the record is always pushed.
addItemUnchecked(c, item, position) ==
  [c EXCEPT !.items = Append(@, Rec(item, position))]

\* addItem: the container after the call (unchanged when the call returns false).
addItem(c, item, position) ==
  IF canFitItem(c, item, position)
  THEN [c EXCEPT !.items = Append(@, Rec(item, position))]
  ELSE c

\* addItem: the boolean the call returns.
addItemReturns(c, item, position) ==
  IF canFitItem(c, item, position) THEN TRUE ELSE FALSE

\* items.findIndex(item => item.itemId === itemId), 0 for -1.
findIndex(c, itemId) ==
  IF \E i \in 1..Len(c.items) : c.items[i].itemId = itemId
  THEN CHOOSE i \in 1..Len(c.items) :
         /\ c.items[i].itemId = itemId
         /\ \A j \in 1..(i - 1) : c.items[j].itemId # itemId
  ELSE 0

\* removeItem: the container after the call.
removeItem(c, itemId) ==
  LET index == findIndex(c, itemId) IN
  IF index # 0
  THEN [c EXCEPT !.items = SubSeq(@, 1, index - 1) \o SubSeq(@, index + 1, Len(@))]
  ELSE c

\* removeItem: the value returned.
removedItem(c, itemId) ==
  LET index == findIndex(c, itemId) IN
  IF index # 0 THEN c.items[index] ELSE Null

findItem(c, itemId) == removedItem(c, itemId)

\* The filter predicate without the test of the width intervals.
blocksTargetAnyWidth(item, targetItem, itemId) ==
  /\ item.itemId # itemId
  /\ item.position.startCoordinates.depth < targetItem.position.startCoordinates.depth
  /\ ~ ( \/ item.position.endCoordinates.height <= targetItem.position.startCoordinates.height
         \/ item.position.startCoordinates.height >= targetItem.position.endCoordinates.height )

\* The filter predicate of getItemsToMove.
blocksTarget(item, targetItem, itemId) ==
  /\ item.itemId # itemId
  /\ item.position.startCoordinates.depth < targetItem.position.startCoordinates.depth
  /\ ~ ( \/ item.position.endCoordinates.width <= targetItem.position.startCoordinates.width
         \/ item.position.startCoordinates.width >= targetItem.position.endCoordinates.width
         \/ item.position.endCoordinates.height <= targetItem.position.startCoordinates.height
         \/ item.position.startCoordinates.height >= targetItem.position.endCoordinates.height )

RECURSIVE filterBlocking(_, _, _, _)
filterBlocking(recs, targetItem, itemId, i) ==
  IF i > Len(recs) THEN << >>
  ELSE (IF blocksTarget(recs[i], targetItem, itemId) THEN << recs[i] >> ELSE << >>)
       \o filterBlocking(recs, targetItem, itemId, i + 1)

getItemsToMove(c, itemId) ==
  LET targetItem == findItem(c, itemId) IN
  IF targetItem = Null THEN << >> ELSE filterBlocking(c.items, targetItem, itemId, 1)

\* ------------------------------------------------------ PlacementService
\* The scan with the depth loop innermost and the width loop in the middle.
RECURSIVE scanFromDepthInnermost(_, _, _, _, _)
scanFromDepthInnermost(item, c, x, y, z) ==
  IF z + item.height > c.height THEN Null
  ELSE IF x + item.width > c.width THEN scanFromDepthInnermost(item, c, 0, 0, z + 1)
  ELSE IF y + item.depth > c.depth THEN scanFromDepthInnermost(item, c, x + 1, 0, z)
  ELSE LET position == Pos(x, y, z, item.width, item.depth, item.height) IN
       IF canFitItem(c, item, position) THEN position
       ELSE scanFromDepthInnermost(item, c, x, y + 1, z)

\* The three nested while loops of findPositionInContainer, entered at (x, y, z).
RECURSIVE scanFrom(_, _, _, _, _)
scanFrom(item, c, x, y, z) ==
  IF z + item.height > c.height THEN Null
  ELSE IF y + item.depth > c.depth THEN scanFrom(item, c, 0, 0, z + 1)
  ELSE IF x + item.width > c.width THEN scanFrom(item, c, 0, y + 1, z)
  ELSE LET position == Pos(x, y, z, item.width, item.depth, item.height) IN
       IF canFitItem(c, item, position) THEN position
       ELSE scanFrom(item, c, x + 1, y, z)

findPositionInContainer(item, c) ==
  IF item.width > c.width \/ item.depth > c.depth \/ item.height > c.height
  THEN Null
  ELSE scanFrom(item, c, 0, 0, 0)

\* The insertion with ties going in front of their equals (an unstable sort).
RECURSIVE insertByPriorityTiesFirst(_, _)
insertByPriorityTiesFirst(sorted, item) ==
  IF sorted = << >> THEN << item >>
  ELSE IF Head(sorted).priority > item.priority
       THEN << Head(sorted) >> \o insertByPriorityTiesFirst(Tail(sorted), item)
       ELSE << item >> \o sorted

\* [...items].sort((a, b) => b.priority - a.priority): stable, highest first.
RECURSIVE insertByPriority(_, _)
insertByPriority(sorted, item) ==
  IF sorted = << >> THEN << item >>
  ELSE IF Head(sorted).priority >= item.priority
       THEN << Head(sorted) >> \o insertByPriority(Tail(sorted), item)
       ELSE << item >> \o sorted

RECURSIVE sortByPriority(_)
sortByPriority(items) ==
  IF items = << >> THEN << >>
  ELSE insertByPriority(sortByPriority(SubSeq(items, 1, Len(items) - 1)), items[Len(items)])

\* containerMap: one empty working Container per given container, in input order.
cloneContainers(cs) ==
  [i \in 1..Len(cs) |->
     [containerId |-> cs[i].containerId, zone |-> cs[i].zone, width |-> cs[i].width,
      depth |-> cs[i].depth, height |-> cs[i].height, items |-> << >>]]

\* The container order of one item without the zone filter: every container
\* in input order at the first attempt, none at the second.
RECURSIVE zoneIndexesAnyZone(_, _, _, _)
zoneIndexesAnyZone(cmap, zone, same, i) ==
  IF i > Len(cmap) \/ ~ same THEN << >>
  ELSE << i >> \o zoneIndexesAnyZone(cmap, zone, same, i + 1)

\* Indexes of the working containers in the order one item tries them: those
\* of its preferred zone, then (when none of them took it) those of other zones.
RECURSIVE zoneIndexes(_, _, _, _)
zoneIndexes(cmap, zone, same, i) ==
  IF i > Len(cmap) THEN << >>
  ELSE (IF (cmap[i].zone = zone) = same THEN << i >> ELSE << >>)
       \o zoneIndexes(cmap, zone, same, i + 1)

\* First index of idxs (from position k) whose container admits the item, 0 if none.
RECURSIVE firstFit(_, _, _, _)
firstFit(item, cmap, idxs, k) ==
  IF k > Len(idxs) THEN 0
  ELSE IF findPositionInContainer(item, cmap[idxs[k]]) # Null THEN idxs[k]
  ELSE firstFit(item, cmap, idxs, k + 1)

Placement(itemId, containerId, position) ==
  [itemId |-> itemId, containerId |-> containerId, position |-> position]

\* One iteration of the first-pass loop of findOptimalPlacement.
placeOne(item, st) ==
  LET preferred == firstFit(item, st.cmap, zoneIndexes(st.cmap, item.preferredZone, TRUE, 1), 1)
      other == firstFit(item, st.cmap, zoneIndexes(st.cmap, item.preferredZone, FALSE, 1), 1)
      idx == IF preferred # 0 THEN preferred ELSE other
  IN IF idx = 0
     THEN [st EXCEPT !.unplaced = Append(@, item)]
     ELSE LET position == findPositionInContainer(item, st.cmap[idx]) IN
          [st EXCEPT !.placements = Append(@, Placement(item.itemId, st.cmap[idx].containerId, position)),
                     !.cmap[idx] = addItem(@, item, position)]

RECURSIVE firstPass(_, _, _)
firstPass(sortedItems, i, st) ==
  IF i > Len(sortedItems) THEN st
  ELSE firstPass(sortedItems, i + 1, placeOne(sortedItems[i], st))

\* A rearrangement step record.
Step(n, action, itemId, fromContainer, fromPosition, toContainer, toPosition) ==
  [step |-> n, action |-> action, itemId |-> itemId,
   fromContainer |-> fromContainer, fromPosition |-> fromPosition,
   toContainer |-> toContainer, toPosition |-> toPosition]

\* The sort of the working containers with the comparator's operands
\* exchanged: smallest available volume first.
RECURSIVE insertByVolumeAscending(_, _, _)
insertByVolumeAscending(cmap, sorted, idx) ==
  IF sorted = << >> THEN << idx >>
  ELSE IF getAvailableVolume(cmap[Head(sorted)]) <= getAvailableVolume(cmap[idx])
       THEN << Head(sorted) >> \o insertByVolumeAscending(cmap, Tail(sorted), idx)
       ELSE << idx >> \o sorted

\* Array.from(containerMap.values()).sort((a, b) => b.getAvailableVolume() -
\* a.getAvailableVolume()): indexes of the working containers, largest
\* available volume first, stable.
RECURSIVE insertByVolume(_, _, _)
insertByVolume(cmap, sorted, idx) ==
  IF sorted = << >> THEN << idx >>
  ELSE IF getAvailableVolume(cmap[Head(sorted)]) >= getAvailableVolume(cmap[idx])
       THEN << Head(sorted) >> \o insertByVolume(cmap, Tail(sorted), idx)
       ELSE << idx >> \o sorted

RECURSIVE sortedContainers(_, _)
sortedContainers(cmap, n) ==
  IF n = 0 THEN << >>
  ELSE insertByVolume(cmap, sortedContainers(cmap, n - 1), n)

\* The filter of lowPriorityItems: the occupant is in the database with a
\* priority below the unplaced item's.
isLowPriority(rec, item, dbItems) ==
  /\ dbItems[rec.itemId] # Null
  /\ dbItems[rec.itemId].priority < item.priority

RECURSIVE filterLowPriority(_, _, _, _)
filterLowPriority(recs, item, dbItems, i) ==
  IF i > Len(recs) THEN << >>
  ELSE (IF isLowPriority(recs[i], item, dbItems) THEN << recs[i] >> ELSE << >>)
       \o filterLowPriority(recs, item, dbItems, i + 1)

\* The sort of lowPriorityItems with the comparison reversed: highest
\* stored priority first.
RECURSIVE insertByDbPriorityDescending(_, _, _)
insertByDbPriorityDescending(sorted, rec, dbItems) ==
  IF sorted = << >> THEN << rec >>
  ELSE IF dbItems[Head(sorted).itemId].priority >= dbItems[rec.itemId].priority
       THEN << Head(sorted) >> \o insertByDbPriorityDescending(Tail(sorted), rec, dbItems)
       ELSE << rec >> \o sorted

\* .sort by database priority, lowest first, stable.
RECURSIVE insertByDbPriority(_, _, _)
insertByDbPriority(sorted, rec, dbItems) ==
  IF sorted = << >> THEN << rec >>
  ELSE IF dbItems[Head(sorted).itemId].priority <= dbItems[rec.itemId].priority
       THEN << Head(sorted) >> \o insertByDbPriority(Tail(sorted), rec, dbItems)
       ELSE << rec >> \o sorted

RECURSIVE sortByDbPriority(_, _)
sortByDbPriority(recs, dbItems) ==
  IF recs = << >> THEN << >>
  ELSE insertByDbPriority(sortByDbPriority(SubSeq(recs, 1, Len(recs) - 1), dbItems),
                          recs[Len(recs)], dbItems)

\* lowPriorityItems decided by the priority the container record carries:
\* the occupants whose own priority is below the unplaced item's.
lowPriorityItemsByRecord(c, item, dbItems) ==
  LET lower(rec) == rec.priority < item.priority
  IN SelectSeq(c.items, lower)

lowPriorityItems(c, item, dbItems) ==
  sortByDbPriority(filterLowPriority(c.items, item, dbItems, 1), dbItems)

\* The new-home loop: first container of sortedContainers other than the
\* current one that admits the removed item, 0 if none.
RECURSIVE newHomeIndex(_, _, _, _, _)
newHomeIndex(lp, cmap, order, cur, m) ==
  IF m > Len(order) THEN 0
  ELSE IF /\ cmap[order[m]].containerId # cmap[cur].containerId
          /\ findPositionInContainer(lp, cmap[order[m]]) # Null
       THEN order[m]
       ELSE newHomeIndex(lp, cmap, order, cur, m + 1)

\* The successful eviction without the step that puts an occupant with no
\* new home back.
evictionFitsNoPutBack(item, lp, cur, newPosition, order, st) ==
  LET cid == st.cmap[cur].containerId
      n == Len(st.rearrangements)
      st1 == [st EXCEPT
                !.rearrangements = @ \o
                   << Step(n + 1, "remove", lp.itemId, cid, lp.position, NoId, Null),
                      Step(n + 2, "place", item.itemId, NoId, Null, cid, newPosition) >>,
                !.placements = Append(@, Placement(item.itemId, cid, newPosition)),
                !.cmap[cur] = addItem(@, item, newPosition)]
      home == newHomeIndex(lp, st1.cmap, order, cur, 1)
  IN IF home # 0
     THEN LET otherPosition == findPositionInContainer(lp, st1.cmap[home]) IN
          [st1 EXCEPT
             !.rearrangements = Append(@, Step(n + 3, "place", lp.itemId, NoId, Null,
                                               st1.cmap[home].containerId, otherPosition)),
             !.cmap[home] = addItem(@, lp, otherPosition)]
     ELSE st1

\* The branch "It fits!": st has lp already removed from container cur.
evictionFits(item, lp, cur, newPosition, order, st) ==
  LET cid == st.cmap[cur].containerId
      n == Len(st.rearrangements)
      st1 == [st EXCEPT
                !.rearrangements = @ \o
                   << Step(n + 1, "remove", lp.itemId, cid, lp.position, NoId, Null),
                      Step(n + 2, "place", item.itemId, NoId, Null, cid, newPosition) >>,
                !.placements = Append(@, Placement(item.itemId, cid, newPosition)),
                !.cmap[cur] = addItem(@, item, newPosition)]
      home == newHomeIndex(lp, st1.cmap, order, cur, 1)
  IN IF home # 0
     THEN LET otherPosition == findPositionInContainer(lp, st1.cmap[home]) IN
          [st1 EXCEPT
             !.rearrangements = Append(@, Step(n + 3, "place", lp.itemId, NoId, Null,
                                               st1.cmap[home].containerId, otherPosition)),
             !.cmap[home] = addItem(@, lp, otherPosition)]
     ELSE [st1 EXCEPT
             !.rearrangements = Append(@, Step(n + 3, "place", lp.itemId, NoId, Null,
                                               cid, lp.position)),
             !.cmap[cur] = addItem(@, lp, lp.position)]

\* The loop over lowPriorityItems without the else branch that puts an
\* occupant back when the item still does not fit.
RECURSIVE evictLoopNoRestore(_, _, _, _, _, _)
evictLoopNoRestore(item, order, cur, low, j, st) ==
  IF j > Len(low) THEN st
  ELSE LET lp == low[j]
           removed == [st EXCEPT !.cmap[cur] = removeItem(@, lp.itemId)]
           newPosition == findPositionInContainer(item, removed.cmap[cur])
       IN IF newPosition # Null
          THEN evictionFits(item, lp, cur, newPosition, order, removed)
          ELSE evictLoopNoRestore(item, order, cur, low, j + 1, removed)

\* The loop over lowPriorityItems for one container.
RECURSIVE evictLoop(_, _, _, _, _, _)
evictLoop(item, order, cur, low, j, st) ==
  IF j > Len(low) THEN st
  ELSE LET lp == low[j]
           removed == [st EXCEPT !.cmap[cur] = removeItem(@, lp.itemId)]
           newPosition == findPositionInContainer(item, removed.cmap[cur])
       IN IF newPosition # Null
          THEN evictionFits(item, lp, cur, newPosition, order, removed)
          ELSE evictLoop(item, order, cur, low, j + 1,
                         [removed EXCEPT !.cmap[cur] = addItem(@, lp, lp.position)])

\* The loop over sortedContainers for one unplaced item.
RECURSIVE containerLoop(_, _, _, _, _)
containerLoop(item, order, k, st, dbItems) ==
  IF k > Len(order) THEN st
  ELSE LET cur == order[k]
           position == findPositionInContainer(item, st.cmap[cur])
       IN IF position # Null
          THEN [st EXCEPT
                  !.placements = Append(@, Placement(item.itemId, st.cmap[cur].containerId, position)),
                  !.cmap[cur] = addItem(@, item, position)]
          ELSE containerLoop(item, order, k + 1,
                             evictLoop(item, order, cur,
                                       lowPriorityItems(st.cmap[cur], item, dbItems), 1, st),
                             dbItems)

RECURSIVE unplacedLoop(_, _, _, _)
unplacedLoop(unplacedItems, i, st, dbItems) ==
  IF i > Len(unplacedItems) THEN st
  ELSE unplacedLoop(unplacedItems, i + 1,
                    containerLoop(unplacedItems[i], sortedContainers(st.cmap, Len(st.cmap)),
                                  1, st, dbItems),
                    dbItems)

\* rearrangeForUnplacedItems: its result and the containers as it leaves them.
rearrangeForUnplacedItems(unplacedItems, cmap, dbItems) ==
  unplacedLoop(unplacedItems, 1,
               [cmap |-> cmap, placements |-> << >>, rearrangements |-> << >>], dbItems)

\* findOptimalPlacement: the returned object, with the unplaced list and the
\* working containers before and after the second pass.
findOptimalPlacement(items, containers, dbItems) ==
  LET first == firstPass(sortByPriority(items), 1,
                         [cmap |-> cloneContainers(containers),
                          placements |-> << >>, unplaced |-> << >>])
      second == IF Len(first.unplaced) > 0
                THEN rearrangeForUnplacedItems(first.unplaced, first.cmap, dbItems)
                ELSE [cmap |-> first.cmap, placements |-> << >>, rearrangements |-> << >>]
  IN [success |-> (Len(first.unplaced) = 0 \/ Len(second.rearrangements) > 0),
      placements |-> first.placements \o second.placements,
      rearrangements |-> second.rearrangements,
      unplaced |-> first.unplaced,
      before |-> first.cmap,
      after |-> second.cmap]

\* ------------------------------------------------------ RetrievalService
RStep(n, action, itemId) == [step |-> n, action |-> action, itemId |-> itemId]

\* The loop "Add steps to remove blocking items".
RECURSIVE removeSteps(_, _)
removeSteps(itemsToMove, i) ==
  IF i > Len(itemsToMove) THEN << >>
  ELSE << RStep(2 * i - 1, "remove", itemsToMove[i].itemId),
          RStep(2 * i, "setAside", itemsToMove[i].itemId) >>
       \o removeSteps(itemsToMove, i + 1)

\* The place-back steps in the order of itemsToMove instead of its reverse.
placeBackStepsForward(itemsToMove, i, stepNumber) ==
  [k \in 1..Len(itemsToMove) |->
     RStep(stepNumber + k - 1, "placeBack", itemsToMove[k].itemId)]

\* The loop "Add steps to place back the blocking items", i counting down.
RECURSIVE placeBackSteps(_, _, _)
placeBackSteps(itemsToMove, i, stepNumber) ==
  IF i < 1 THEN << >>
  ELSE << RStep(stepNumber, "placeBack", itemsToMove[i].itemId) >>
       \o placeBackSteps(itemsToMove, i - 1, stepNumber + 1)

calculateRetrievalSteps(itemId, c) ==
  LET itemsToMove == getItemsToMove(c, itemId)
      n == Len(itemsToMove)
  IN IF n = 0
     THEN << RStep(1, "retrieve", itemId) >>
     ELSE removeSteps(itemsToMove, 1)
          \o << RStep(2 * n + 1, "retrieve", itemId) >>
          \o placeBackSteps(itemsToMove, n, 2 * n + 2)

\* ---------------------------------------------------------- WasteService
\* steps.push({ step: stepNumber++, action, itemId }): stepNumber starts at
\* 1 and is raised by every push.
wastePush(steps, action, itemId) == Append(steps, RStep(Len(steps) + 1, action, itemId))

\* The remove loop pushing the remove step only.
RECURSIVE wasteRemoveLoopNoSetAside(_, _, _)
wasteRemoveLoopNoSetAside(steps, itemsToMove, i) ==
  IF i > Len(itemsToMove) THEN steps
  ELSE wasteRemoveLoopNoSetAside(wastePush(steps, "remove", itemsToMove[i].itemId),
                                 itemsToMove, i + 1)

\* for (const item of itemsToMove): a remove and a setAside step each.
RECURSIVE wasteRemoveLoop(_, _, _)
wasteRemoveLoop(steps, itemsToMove, i) ==
  IF i > Len(itemsToMove) THEN steps
  ELSE wasteRemoveLoop(wastePush(wastePush(steps, "remove", itemsToMove[i].itemId),
                                 "setAside", itemsToMove[i].itemId),
                       itemsToMove, i + 1)

\* for (let i = itemsToMove.length - 1; i >= 0; i--): a placeBack step each.
RECURSIVE wastePlaceBackLoop(_, _, _)
wastePlaceBackLoop(steps, itemsToMove, i) ==
  IF i < 1 THEN steps
  ELSE wastePlaceBackLoop(wastePush(steps, "placeBack", itemsToMove[i].itemId),
                          itemsToMove, i - 1)

\* WasteService.calculateRetrievalSteps(itemId, container).
wasteCalculateRetrievalSteps(itemId, c) ==
  LET itemsToMove == getItemsToMove(c, itemId)
  IN IF Len(itemsToMove) = 0
     THEN wastePush(<< >>, "retrieve", itemId)
     ELSE wastePlaceBackLoop(
            wastePush(wasteRemoveLoop(<< >>, itemsToMove, 1), "retrieve", itemId),
            itemsToMove, Len(itemsToMove))

\* db.getAllItems(): the values of the items Map in insertion order, the
\* items having been inserted in the order of their ids.
RECURSIVE getAllItems(_, _)
getAllItems(dbItems, order) ==
  IF order = << >> THEN << >>
  ELSE (IF dbItems[Head(order)] # Null THEN << dbItems[Head(order)] >> ELSE << >>)
       \o getAllItems(dbItems, Tail(order))

\* identifyWasteItems().wasteItems: the stored items that are waste today.
identifyWasteItems(dbItems, date) ==
  LET waste(item) == isWaste(item, date)
  IN SelectSeq(getAllItems(dbItems, << "V", "W", "X", "Y", "Z" >>), waste)

\* wasteItems.sort by the stored priority, lowest first, stable.
RECURSIVE insertWaste(_, _, _)
insertWaste(sorted, w, dbItems) ==
  IF sorted = << >> THEN << w >>
  ELSE IF dbItems[Head(sorted).itemId].priority <= dbItems[w.itemId].priority
       THEN << Head(sorted) >> \o insertWaste(Tail(sorted), w, dbItems)
       ELSE << w >> \o sorted

RECURSIVE sortWaste(_, _)
sortWaste(ws, dbItems) ==
  IF ws = << >> THEN << >>
  ELSE insertWaste(sortWaste(SubSeq(ws, 1, Len(ws) - 1), dbItems), ws[Len(ws)], dbItems)

\* The loop of generateReturnPlan over sortedWasteItems: an item over the
\* weight left, or whose container the database does not hold, is passed.
RECURSIVE returnLoop(_, _, _, _, _, _)
returnLoop(sorted, i, st, dbItems, dbContainers, maxWeight) ==
  IF i > Len(sorted) THEN st
  ELSE LET item == dbItems[sorted[i].itemId]
           known == item.containerId # NoId /\ dbContainers[item.containerId] # Null
       IN IF st.totalWeight + item.mass > maxWeight \/ ~ known
          THEN returnLoop(sorted, i + 1, st, dbItems, dbContainers, maxWeight)
          ELSE returnLoop(sorted, i + 1,
                 [returnPlan |-> Append(st.returnPlan,
                                   [step |-> Len(st.returnPlan) + 1, itemId |-> item.itemId,
                                    fromContainer |-> item.containerId]),
                  retrievalSteps |-> st.retrievalSteps \o
                    wasteCalculateRetrievalSteps(item.itemId, dbContainers[item.containerId]),
                  returnItems |-> Append(st.returnItems, item.itemId),
                  totalWeight |-> st.totalWeight + item.mass,
                  totalVolume |-> st.totalVolume + getVolume(item)],
                 dbItems, dbContainers, maxWeight)

\* generateReturnPlan past the test of the undocking container.
generateReturnPlan(dbItems, dbContainers, date, maxWeight) ==
  returnLoop(sortWaste(identifyWasteItems(dbItems, date), dbItems), 1,
             [returnPlan |-> << >>, retrievalSteps |-> << >>, returnItems |-> << >>,
              totalWeight |-> 0, totalVolume |-> 0],
             dbItems, dbContainers, maxWeight)

\* ----------------------------------------------------- SimulationService
\* The loop over itemsToBeUsedPerDay of one simulated day: item.use() and an
\* itemsUsed entry for every entry whose item the database holds, and an
\* itemsDepletedToday entry when use() returns 0.
RECURSIVE useLoop(_, _, _)
useLoop(toUse, k, st) ==
  IF k > Len(toUse) THEN st
  ELSE IF st.items[toUse[k]] = Null THEN useLoop(toUse, k + 1, st)
  ELSE LET used == use(st.items[toUse[k]])
           left == IF "remainingUses" \in DOMAIN used THEN used.remainingUses ELSE NullNumber
       IN useLoop(toUse, k + 1,
                  [st EXCEPT !.items[toUse[k]] = used,
                             !.itemsUsed = Append(@, [itemId |-> toUse[k], remainingUses |-> left]),
                             !.itemsDepletedToday =
                                IF "remainingUses" \in DOMAIN used /\ left = 0
                                THEN Append(@, toUse[k]) ELSE @])

\* The items whose expiry date is the given day, in the order of getAllItems.
expiringOn(dbItems, day) ==
  LET all == getAllItems(dbItems, << "V", "W", "X", "Y", "Z" >>)
      today(item) == "expiryDate" \in DOMAIN item /\ item.expiryDate = day
      hit == SelectSeq(all, today)
  IN [k \in DOMAIN hit |-> hit[k].itemId]

\* The loop "Simulate each day": newDate is one day after currentDate, the
\* date read when the call began, in every round.
RECURSIVE dayLoop(_, _, _, _, _)
dayLoop(i, daysDiff, start, toUse, st) ==
  IF i >= daysDiff THEN st
  ELSE LET newDate == start + 1
           used == useLoop(toUse, 1, [st EXCEPT !.date = newDate])
       IN dayLoop(i + 1, daysDiff, start, toUse,
                  [used EXCEPT !.itemsExpired = @ \o expiringOn(used.items, newDate)])

\* ---------------------------------------------------------------- state
VARIABLES
  items,       \* db.items: item id -> Item, Null when absent
  containers,  \* db.containers: container id -> Container, Null when absent
  ops,         \* service calls made so far
  res,         \* the response of the call being answered, Idle between calls
  currentDate  \* db.currentDate, in whole days since the database was created

vars == << items, containers, ops, res, currentDate >>

Idle == [op |-> "idle"]
NoItems == [id \in ItemIds |-> Null]

Init ==
  /\ items = NoItems
  /\ containers = [id \in ContainerIds |-> Null]
  /\ ops = 0
  /\ res = Idle
  /\ currentDate = 0

\* Request bodies: item batches and container lists without a repeated id.
BatchesOf(specs) ==
  { q \in UNION { [1..n -> specs] : n \in 1..MaxBatch } :
      \A i, j \in 1..Len(q) : i # j => q[i].itemId # q[j].itemId }

ContainerLists ==
  { q \in UNION { [1..n -> ContainerSpecs] : n \in 1..Cardinality(ContainerSpecs) } :
      \A i, j \in 1..Len(q) : i # j => q[i].containerId # q[j].containerId }

PlanContainerLists ==
  { q \in UNION { [1..n -> PlanContainerSpecs] : n \in 1..Cardinality(PlanContainerSpecs) } :
      \A i, j \in 1..Len(q) : i # j => q[i].containerId # q[j].containerId }

\* CSV files of items: for some catalogued items a row, whose Priority cell
\* is filled (TRUE) or empty (FALSE).
ItemFiles(specs) ==
  UNION { [ids -> BOOLEAN] : ids \in (SUBSET { s.itemId : s \in specs }) \ { {} } }

\* res.json(result): the response leaves and the server takes the next call.
Respond ==
  /\ res # Idle
  /\ UNCHANGED currentDate
  /\ res' = Idle
  /\ UNCHANGED << items, containers, ops >>

\* ---------------------------------------------- import-export-service.js
\* importItems: db.addItem(new Item(row)) per row; an empty Priority cell
\* gives priority 0. db.addItem replaces a stored item of the same id.
importItems(file, dbItems) ==
  [id \in ItemIds |->
     IF id \in DOMAIN file
     THEN NewItem([ItemSpecOf(id) EXCEPT !.priority = IF file[id] THEN @ ELSE 0])
     ELSE dbItems[id]]

ImportItems(file) ==
  /\ res = Idle
  /\ UNCHANGED currentDate
  /\ items' = importItems(file, items)
  /\ ops' = ops + 1
  /\ res' = [op |-> "importItems", success |-> TRUE]
  /\ UNCHANGED containers

\* importContainers: db.addContainer of a new, empty Container per row.
ImportContainers(rows) ==
  /\ res = Idle
  /\ UNCHANGED currentDate
  /\ containers' = [id \in ContainerIds |->
                      IF \E s \in rows : s.containerId = id
                      THEN NewContainer(ContainerSpecOf(id))
                      ELSE containers[id]]
  /\ ops' = ops + 1
  /\ res' = [op |-> "importContainers", success |-> TRUE]
  /\ UNCHANGED items

\* ------------------------------------------------- POST /api/placement
\* containerObjects: the stored container when the id is known, else a new one.
containerObjects(specs, dbContainers) ==
  [i \in 1..Len(specs) |->
     IF dbContainers[specs[i].containerId] # Null
     THEN dbContainers[specs[i].containerId]
     ELSE NewContainer(specs[i])]

\* containerObjects.forEach(db.addContainer).
addContainers(given, dbContainers) ==
  [id \in ContainerIds |->
     IF \E i \in 1..Len(given) : given[i].containerId = id
     THEN given[CHOOSE i \in 1..Len(given) : given[i].containerId = id]
     ELSE dbContainers[id]]

\* The forEach of the route storing the container id of a placement
\* without its position.
RECURSIVE persistPlacementsContainerOnly(_, _, _, _)
persistPlacementsContainerOnly(placements, i, itemObjects, dbItems) ==
  IF i > Len(placements) THEN dbItems
  ELSE LET p == placements[i]
           k == CHOOSE k \in 1..Len(itemObjects) :
                  /\ itemObjects[k].itemId = p.itemId
                  /\ \A j \in 1..(k - 1) : itemObjects[j].itemId # p.itemId
       IN persistPlacementsContainerOnly(placements, i + 1, itemObjects,
            [dbItems EXCEPT ![p.itemId] =
               [itemObjects[k] EXCEPT !.containerId = p.containerId]])

\* result.placements.forEach: the item object of the batch gets the
\* placement's container id and position and is stored with db.addItem.
RECURSIVE persistPlacements(_, _, _, _)
persistPlacements(placements, i, itemObjects, dbItems) ==
  IF i > Len(placements) THEN dbItems
  ELSE LET p == placements[i]
           k == CHOOSE k \in 1..Len(itemObjects) :
                  /\ itemObjects[k].itemId = p.itemId
                  /\ \A j \in 1..(k - 1) : itemObjects[j].itemId # p.itemId
       IN persistPlacements(placements, i + 1, itemObjects,
            [dbItems EXCEPT ![p.itemId] =
               [itemObjects[k] EXCEPT !.containerId = p.containerId,
                                      !.position = p.position]])

\* The route handler: the response carries findOptimalPlacement's result;
\* the arguments and the working containers are kept beside it.
PlacementRequest(batch, specs) ==
  LET itemObjects == [i \in 1..Len(batch) |-> NewItem(batch[i])]
      given == containerObjects(specs, containers)
      result == findOptimalPlacement(itemObjects, given, items)
  IN /\ res = Idle
     /\ UNCHANGED currentDate
     /\ IF result.success
        THEN /\ containers' = addContainers(given, containers)
             /\ items' = persistPlacements(result.placements, 1, itemObjects, items)
        ELSE UNCHANGED << items, containers >>
     /\ ops' = ops + 1
     /\ res' = [op |-> "placement", batch |-> itemObjects, given |-> given,
                success |-> result.success, placements |-> result.placements,
                rearrangements |-> result.rearrangements,
                unplaced |-> result.unplaced,
                before |-> result.before, after |-> result.after]

\* ------------------------------------------------------ POST /api/place
\* placeItem taking the item out of its old container before the tests, so
\* that a refused call leaves the old container without the record.
PlaceItemRemoveFirst(itemId, containerId, position) ==
  LET item == items[itemId]
      container == containers[containerId]
      fails == \/ item = Null
               \/ container = Null
               \/ ~ canFitItem(container, item, position)
      afterRemove ==
        IF item # Null /\ item.containerId # NoId /\ containers[item.containerId] # Null
        THEN [containers EXCEPT ![item.containerId] = removeItem(@, itemId)]
        ELSE containers
      placed == [item EXCEPT !.containerId = containerId, !.position = position]
  IN /\ res = Idle
     /\ UNCHANGED currentDate
     /\ IF fails
        THEN /\ items' = items
             /\ containers' = afterRemove
        ELSE /\ items' = [items EXCEPT ![itemId] = placed]
             /\ containers' = [afterRemove EXCEPT ![containerId] = addItem(@, placed, position)]
     /\ ops' = ops + 1
     /\ res' = [op |-> "place", itemId |-> itemId, containerId |-> containerId,
                position |-> position, success |-> ~ fails,
                logs |-> IF fails THEN << >>
                         ELSE << [actionType |-> "placement", itemId |-> itemId,
                                  toContainer |-> containerId] >>]

\* placeItem(itemId, userId, timestamp, containerId, position).
PlaceItem(itemId, containerId, position) ==
  LET item == items[itemId]
      container == containers[containerId]
      fails == \/ item = Null
               \/ container = Null
               \/ ~ canFitItem(container, item, position)
      afterRemove ==
        IF item.containerId # NoId /\ containers[item.containerId] # Null
        THEN [containers EXCEPT ![item.containerId] = removeItem(@, itemId)]
        ELSE containers
      placed == [item EXCEPT !.containerId = containerId, !.position = position]
  IN /\ res = Idle
     /\ UNCHANGED currentDate
     /\ IF fails
        THEN UNCHANGED << items, containers >>
        ELSE /\ items' = [items EXCEPT ![itemId] = placed]
             /\ containers' = [afterRemove EXCEPT ![containerId] = addItem(@, placed, position)]
     /\ ops' = ops + 1
     /\ res' = [op |-> "place", itemId |-> itemId, containerId |-> containerId,
                position |-> position, success |-> ~ fails,
                logs |-> IF fails THEN << >>
                         ELSE << [actionType |-> "placement", itemId |-> itemId,
                                  toContainer |-> containerId] >>]

\* ------------------------------------- retrieveItem and completeUndocking
\* retrievalService.retrieveItem(itemId, userId, timestamp): item.use(),
\* db.updateItem(item) and a log entry; an item without a usage limit is
\* left as it was.
RetrieveItem(itemId) ==
  LET item == items[itemId]
      fails == \/ item = Null
               \/ item.containerId = NoId
               \/ containers[item.containerId] = Null
  IN /\ res = Idle
     /\ UNCHANGED currentDate
     /\ ops' = ops + 1
     /\ res' = [op |-> "retrieve", itemId |-> itemId, success |-> ~ fails]
     /\ items' = IF fails THEN items ELSE [items EXCEPT ![itemId] = use(@)]
     /\ UNCHANGED containers

\* wasteService.completeUndocking(undockingContainerId, timestamp): every
\* item with a record in the container leaves the item store, and the
\* container is emptied.
CompleteUndocking(containerId) ==
  LET c == containers[containerId] IN
  /\ res = Idle
  /\ UNCHANGED currentDate
  /\ ops' = ops + 1
  /\ IF c = Null
     THEN /\ res' = [op |-> "undock", containerId |-> containerId, success |-> FALSE,
                     itemsRemoved |-> 0]
          /\ UNCHANGED << items, containers >>
     ELSE /\ items' = [id \in ItemIds |->
                         IF \E i \in 1..Len(c.items) : c.items[i].itemId = id
                         THEN Null ELSE items[id]]
          /\ containers' = [containers EXCEPT ![containerId].items = << >>]
          /\ res' = [op |-> "undock", containerId |-> containerId, success |-> TRUE,
                     itemsRemoved |-> Len(c.items)]

\* wasteService.generateReturnPlan(undockingContainerId, undockingDate,
\* maxWeight).
GenerateReturnPlan(undockingContainerId, maxWeight) ==
  LET plan == generateReturnPlan(items, containers, currentDate, maxWeight)
  IN /\ res = Idle
     /\ ops' = ops + 1
     /\ res' = IF containers[undockingContainerId] = Null
               THEN [op |-> "returnPlan", success |-> FALSE]
               ELSE [op |-> "returnPlan", success |-> TRUE, maxWeight |-> maxWeight,
                     returnPlan |-> plan.returnPlan,
                     retrievalSteps |-> plan.retrievalSteps,
                     returnItems |-> plan.returnItems,
                     totalWeight |-> plan.totalWeight,
                     totalVolume |-> plan.totalVolume]
     /\ UNCHANGED << items, containers, currentDate >>

\* simulationService.simulateDays(numOfDays, toTimestamp, itemsToBeUsedPerDay)
\* without a toTimestamp: numOfDays 0 stands for none given, which means
\* one day.
SimulateDays(numOfDays, itemsToBeUsedPerDay) ==
  LET targetDate == IF numOfDays # 0 THEN currentDate + numOfDays ELSE currentDate + 1
      daysDiff == targetDate - currentDate
      done == dayLoop(0, daysDiff, currentDate, itemsToBeUsedPerDay,
                      [items |-> items, date |-> currentDate, itemsUsed |-> << >>,
                       itemsExpired |-> << >>, itemsDepletedToday |-> << >>])
  IN /\ res = Idle
     /\ ops' = ops + 1
     /\ UNCHANGED containers
     /\ IF targetDate <= currentDate
        THEN /\ res' = [op |-> "simulate", numOfDays |-> numOfDays, success |-> FALSE]
             /\ UNCHANGED << items, currentDate >>
        ELSE /\ items' = done.items
             /\ currentDate' = done.date
             /\ res' = [op |-> "simulate", numOfDays |-> numOfDays, success |-> TRUE,
                        newDate |-> done.date, itemsUsed |-> done.itemsUsed,
                        itemsExpired |-> done.itemsExpired,
                        itemsDepletedToday |-> done.itemsDepletedToday]

\* --------------------------------------------- Container methods, direct
\* container.addItem(item, position).
AddItem(containerId, spec, position) ==
  /\ res = Idle
  /\ UNCHANGED currentDate
  /\ containers[containerId] # Null
  /\ containers' = [containers EXCEPT ![containerId] = addItem(@, NewItem(spec), position)]
  /\ res' = [op |-> "add", containerId |-> containerId, itemId |-> spec.itemId,
             position |-> position,
             success |-> addItemReturns(containers[containerId], NewItem(spec), position),
             container |-> containers[containerId]]
  /\ UNCHANGED items

\* container.removeItem(itemId).
RemoveItem(containerId, itemId) ==
  /\ res = Idle
  /\ UNCHANGED currentDate
  /\ containers[containerId] # Null
  /\ containers' = [containers EXCEPT ![containerId] = removeItem(@, itemId)]
  /\ res' = [op |-> "remove", containerId |-> containerId, itemId |-> itemId,
             removed |-> removedItem(containers[containerId], itemId),
             container |-> containers[containerId]]
  /\ UNCHANGED items

\* placementService.findPositionInContainer(item, container).
FindPosition(containerId, spec) ==
  /\ res = Idle
  /\ UNCHANGED currentDate
  /\ containers[containerId] # Null
  /\ res' = [op |-> "findPosition", containerId |-> containerId, item |-> NewItem(spec),
             position |-> findPositionInContainer(NewItem(spec), containers[containerId])]
  /\ UNCHANGED << items, containers, ops >>

\* retrievalService.calculateRetrievalSteps(itemId, container). Its retrieve
\* step reads db.getItem(itemId).name, a TypeError when the database has no
\* such item.
CalculateRetrievalSteps(containerId, itemId) ==
  /\ res = Idle
  /\ UNCHANGED currentDate
  /\ containers[containerId] # Null
  /\ res' = [op |-> "steps", containerId |-> containerId, itemId |-> itemId,
             threw |-> (items[itemId] = Null),
             steps |-> IF items[itemId] = Null THEN << >>
                       ELSE calculateRetrievalSteps(itemId, containers[containerId])]
  /\ UNCHANGED << items, containers, ops >>

\* wasteService.calculateRetrievalSteps(itemId, container). Its retrieve
\* step reads db.getItem(itemId).name, a TypeError when the database has no
\* such item.
WasteCalculateRetrievalSteps(containerId, itemId) ==
  /\ res = Idle
  /\ UNCHANGED currentDate
  /\ containers[containerId] # Null
  /\ res' = [op |-> "wasteSteps", containerId |-> containerId, itemId |-> itemId,
             threw |-> (items[itemId] = Null),
             steps |-> IF items[itemId] = Null THEN << >>
                       ELSE wasteCalculateRetrievalSteps(itemId, containers[containerId])]
  /\ UNCHANGED << items, containers, ops >>

\* container.canFitItem(item, position); the item is not read by the method.
CanFitItem(containerId, spec, position) ==
  /\ res = Idle
  /\ UNCHANGED currentDate
  /\ containers[containerId] # Null
  /\ res' = [op |-> "canFit", containerId |-> containerId, position |-> position,
             fits |-> canFitItem(containers[containerId], NewItem(spec), position)]
  /\ UNCHANGED << items, containers, ops >>

\* getItemsToMove taking the blocking records out of the container as it
\* collects them.
GetItemsToMoveSplicing(containerId, itemId) ==
  LET blocking == getItemsToMove(containers[containerId], itemId)
      kept(rec) == \A i \in 1..Len(blocking) : blocking[i] # rec
  IN /\ res = Idle
     /\ UNCHANGED currentDate
     /\ containers[containerId] # Null
     /\ res' = [op |-> "itemsToMove", containerId |-> containerId, itemId |-> itemId,
                itemsToMove |-> blocking]
     /\ containers' = [containers EXCEPT ![containerId].items = SelectSeq(@, kept)]
     /\ UNCHANGED << items, ops >>

\* container.getItemsToMove(itemId).
GetItemsToMove(containerId, itemId) ==
  /\ res = Idle
  /\ UNCHANGED currentDate
  /\ containers[containerId] # Null
  /\ res' = [op |-> "itemsToMove", containerId |-> containerId, itemId |-> itemId,
             itemsToMove |-> getItemsToMove(containers[containerId], itemId)]
  /\ UNCHANGED << items, containers, ops >>

\* container.getTotalVolume(), getOccupiedVolume() and getAvailableVolume().
Volumes(containerId) ==
  /\ res = Idle
  /\ UNCHANGED currentDate
  /\ containers[containerId] # Null
  /\ res' = [op |-> "volumes", containerId |-> containerId,
             total |-> getTotalVolume(containers[containerId]),
             occupied |-> getOccupiedVolume(containers[containerId]),
             available |-> getAvailableVolume(containers[containerId])]
  /\ UNCHANGED << items, containers, ops >>

\* ------------------------- findPositionInContainer, one loop test a step
\* The call enters: the size test, then the loops at the origin.
BeginScan(containerId, spec) ==
  LET item == NewItem(spec)
      c == containers[containerId]
  IN /\ res = Idle
     /\ UNCHANGED currentDate
     /\ c # Null
     /\ res' = IF item.width > c.width \/ item.depth > c.depth \/ item.height > c.height
               THEN [op |-> "findPosition", containerId |-> containerId, item |-> item,
                     position |-> Null]
               ELSE [op |-> "scan", containerId |-> containerId, item |-> item,
                     x |-> 0, y |-> 0, z |-> 0]
     /\ UNCHANGED << items, containers, ops >>

\* The loops with the reset of x not followed by y += 1.
ScanStepDepthStuck ==
  LET item == res.item
      c == containers[res.containerId]
      position == Pos(res.x, res.y, res.z, item.width, item.depth, item.height)
      found(p) == [op |-> "findPosition", containerId |-> res.containerId, item |-> item,
                   position |-> p]
  IN /\ res.op = "scan"
     /\ UNCHANGED currentDate
     /\ res' = IF res.z + item.height > c.height THEN found(Null)
               ELSE IF res.y + item.depth > c.depth
                    THEN [res EXCEPT !.x = 0, !.y = 0, !.z = @ + 1]
               ELSE IF res.x + item.width > c.width
                    THEN [res EXCEPT !.x = 0]
               ELSE IF canFitItem(c, item, position) THEN found(position)
               ELSE [res EXCEPT !.x = @ + 1]
     /\ UNCHANGED << items, containers, ops >>

\* One test of the three nested while loops: the exit of the height loop
\* returns null, the exit of the depth loop resets y and raises z, the exit
\* of the width loop resets x and raises y, and inside the width loop the
\* position is returned when canFitItem holds, else x is raised.
ScanStep ==
  LET item == res.item
      c == containers[res.containerId]
      position == Pos(res.x, res.y, res.z, item.width, item.depth, item.height)
      found(p) == [op |-> "findPosition", containerId |-> res.containerId, item |-> item,
                   position |-> p]
  IN /\ res.op = "scan"
     /\ UNCHANGED currentDate
     /\ res' = IF res.z + item.height > c.height THEN found(Null)
               ELSE IF res.y + item.depth > c.depth
                    THEN [res EXCEPT !.x = 0, !.y = 0, !.z = @ + 1]
               ELSE IF res.x + item.width > c.width
                    THEN [res EXCEPT !.x = 0, !.y = @ + 1]
               ELSE IF canFitItem(c, item, position) THEN found(position)
               ELSE [res EXCEPT !.x = @ + 1]
     /\ UNCHANGED << items, containers, ops >>

\* placementService.rearrangeForUnplacedItems(unplacedItems, containerMap),
\* the map holding the constructed containers in the order given. The call
\* works on the Container objects themselves.
Resolve(unplacedSpecs, order) ==
  LET unplacedItems == [i \in DOMAIN unplacedSpecs |-> NewItem(unplacedSpecs[i])]
      cmap == [k \in DOMAIN order |-> containers[order[k]]]
      result == rearrangeForUnplacedItems(unplacedItems, cmap, items)
  IN /\ res = Idle
     /\ UNCHANGED currentDate
     /\ \A k \in DOMAIN order : containers[order[k]] # Null
     /\ containers' = [id \in ContainerIds |->
                         IF \E k \in DOMAIN order : order[k] = id
                         THEN result.cmap[CHOOSE k \in DOMAIN order : order[k] = id]
                         ELSE containers[id]]
     /\ ops' = ops + 1
     /\ res' = [op |-> "resolve", unplaced |-> unplacedItems,
                placements |-> result.placements,
                rearrangements |-> result.rearrangements,
                before |-> cmap, after |-> result.cmap]
     /\ UNCHANGED items

\* ------------------------------------------------------- specifications
\* The whole store behind the HTTP routes, from the empty database.
Next ==
  \/ \E file \in ItemFiles(StoreItemSpecs) : ops < MaxOps /\ ImportItems(file)
  \/ \E rows \in (SUBSET ContainerSpecs) \ { {} } : ops < MaxOps /\ ImportContainers(rows)
  \/ \E batch \in BatchesOf(StoreItemSpecs), specs \in ContainerLists :
       ops < MaxOps /\ PlacementRequest(batch, specs)
  \/ \E spec \in StoreItemSpecs, containerId \in StoreContainerIds, position \in Positions :
       ops < MaxOps /\ PlaceItem(spec.itemId, containerId, position)
  \/ \E containerId \in StoreContainerIds, spec \in StoreItemSpecs, position \in Positions :
       ops < MaxOps /\ AddItem(containerId, spec, position) /\ ops' = ops + 1
  \/ \E containerId \in StoreContainerIds, spec \in StoreItemSpecs :
       ops < MaxOps /\ RemoveItem(containerId, spec.itemId) /\ ops' = ops + 1
  \/ Respond

Spec == Init /\ [][Next]_vars

\* Placement requests and placeItem calls only.
NextService ==
  \/ \E batch \in BatchesOf(ServiceItemSpecs), specs \in ContainerLists :
       ops < MaxOps /\ PlacementRequest(batch, specs)
  \/ \E spec \in ServiceItemSpecs, containerId \in StoreContainerIds, position \in Positions :
       ops < MaxOps /\ PlaceItem(spec.itemId, containerId, position)
  \/ Respond

SpecService == Init /\ [][NextService]_vars

\* The placement planner over the whole catalogue, as a function of the
\* request body and of the item table it reads priorities from: the table is
\* any that one importItems call leaves (or the empty one), and one placement
\* request is answered.
InitPlan ==
  /\ items \in { NoItems } \cup { importItems(file, NoItems) : file \in ItemFiles(ItemSpecs) }
  /\ containers = [id \in ContainerIds |-> Null]
  /\ ops = 0
  /\ res = Idle
  /\ currentDate = 0

NextPlan ==
  \/ \E batch \in BatchesOf(ItemSpecs), specs \in PlanContainerLists :
       ops = 0 /\ PlacementRequest(batch, specs)
  \/ Respond

SpecPlan == InitPlan /\ [][NextPlan]_vars

\* The planner asked to place unit items only, up to three of them, after
\* one importItems call for Y and Z (or none).
InitUnits ==
  /\ items \in { NoItems } \cup { importItems(file, NoItems) : file \in ItemFiles(StoreItemSpecs) }
  /\ containers = [id \in ContainerIds |-> Null]
  /\ ops = 0
  /\ res = Idle
  /\ currentDate = 0

NextUnits ==
  \/ \E batch \in BatchesOf(UnitItemSpecs), specs \in PlanContainerLists :
       ops = 0 /\ PlacementRequest(batch, specs)
  \/ Respond

SpecUnits == InitUnits /\ [][NextUnits]_vars

\* One Container object: constructed, then grown and shrunk by addItem and
\* removeItem, and read by the queries. The item table is the one an import
\* of rows for X, Y and Z leaves; W is not in it.
InitContainer ==
  /\ items = importItems([id \in {"X", "Y", "Z"} |-> TRUE], NoItems)
  /\ \E spec \in PlanContainerSpecs :
       containers = [id \in ContainerIds |->
                       IF id = spec.containerId THEN NewContainer(spec) ELSE Null]
  /\ ops = 0
  /\ res = Idle
  /\ currentDate = 0

NextContainer ==
  \/ \E containerId \in ContainerIds, spec \in ItemSpecs, position \in ObjectPositions :
       /\ containers[containerId] # Null
       /\ Len(containers[containerId].items) < MaxRecords
       /\ AddItem(containerId, spec, position)
       /\ UNCHANGED ops
  \/ \E containerId \in ContainerIds, itemId \in CatalogueIds :
       RemoveItem(containerId, itemId) /\ UNCHANGED ops
  \/ \E containerId \in ContainerIds, spec \in ItemSpecs : FindPosition(containerId, spec)
  \/ \E containerId \in ContainerIds, itemId \in CatalogueIds :
       CalculateRetrievalSteps(containerId, itemId)
  \/ \E containerId \in ContainerIds, itemId \in CatalogueIds :
       GetItemsToMove(containerId, itemId)
  \/ Respond

SpecContainer == InitContainer /\ [][NextContainer]_vars

\* The same Container object under its three methods that test and change
\* the records: canFitItem, addItem and removeItem.
NextBox ==
  \/ \E containerId \in ContainerIds, spec \in ItemSpecs, position \in ObjectPositions :
       /\ containers[containerId] # Null
       /\ Len(containers[containerId].items) < MaxRecords
       /\ AddItem(containerId, spec, position)
       /\ UNCHANGED ops
  \/ \E containerId \in ContainerIds, itemId \in CatalogueIds :
       RemoveItem(containerId, itemId) /\ UNCHANGED ops
  \/ \E containerId \in ContainerIds, spec \in ItemSpecs, position \in ObjectPositions :
       CanFitItem(containerId, spec, position)
  \/ Respond

SpecBox == InitContainer /\ [][NextBox]_vars

\* The second pass called on containers that hold records: the item table
\* is one an import leaves, the containers are constructed and filled by
\* addItem with boxes of the items' own dimensions, each item id in one
\* container at most, and one rearrangeForUnplacedItems call is made for
\* items that no container holds.
ResolveTables ==
  { importItems([id \in CatalogueIds |-> TRUE], NoItems),
    importItems([id \in {"X", "Y", "Z"} |-> id # "Y"], NoItems) }

HeldAnywhere(itemId) ==
  \E id \in ContainerIds :
    /\ containers[id] # Null
    /\ \E i \in 1..Len(containers[id].items) : containers[id].items[i].itemId = itemId

RecordsHeld ==
  Cardinality({ itemId \in ItemIds : HeldAnywhere(itemId) })

\* The orders in which the constructed containers enter the map: by id,
\* ascending or descending.
ResolveOrders ==
  LET present(id) == containers[id] # Null
      up == SelectSeq(<< "c1", "c2", "c3" >>, present)
  IN { up, [k \in DOMAIN up |-> up[Len(up) + 1 - k]] }

InitResolve ==
  /\ items \in ResolveTables
  /\ \E ids \in (SUBSET ContainerIds) \ { {} } :
       containers = [id \in ContainerIds |->
                       IF id \in ids
                       THEN NewContainer(CHOOSE s \in PlanContainerSpecs : s.containerId = id)
                       ELSE Null]
  /\ ops = 0
  /\ res = Idle
  /\ currentDate = 0

NextResolve ==
  \/ \E containerId \in ContainerIds, spec \in ItemSpecs, x, y, z \in 0..1 :
       /\ ops = 0
       /\ RecordsHeld < MaxRecords
       /\ ~ HeldAnywhere(spec.itemId)
       /\ containers[containerId] # Null
       /\ canFitItem(containers[containerId], NewItem(spec),
                     Pos(x, y, z, spec.width, spec.depth, spec.height))
       /\ AddItem(containerId, spec, Pos(x, y, z, spec.width, spec.depth, spec.height))
       /\ UNCHANGED ops
  \/ \E unplacedSpecs \in UNION { [1..n -> ItemSpecs] : n \in 1..MaxUnplaced } :
       \E order \in ResolveOrders :
         /\ ops = 0
         /\ \A i, j \in DOMAIN unplacedSpecs :
              i # j => unplacedSpecs[i].itemId # unplacedSpecs[j].itemId
         /\ \A i \in DOMAIN unplacedSpecs : ~ HeldAnywhere(unplacedSpecs[i].itemId)
         /\ Resolve(unplacedSpecs, order)
  \/ Respond

SpecResolve == InitResolve /\ [][NextResolve]_vars

\* One Container object filled by addItem with the items' own boxes and
\* emptied by removeItem, under every query: the retrieval steps, the
\* blocking items, canFitItem, findPositionInContainer and the volumes.
NextQueries ==
  \/ \E containerId \in ContainerIds, spec \in ItemSpecs, x, y, z \in 0..1 :
       /\ containers[containerId] # Null
       /\ Len(containers[containerId].items) < MaxRecords
       /\ ~ HeldAnywhere(spec.itemId)
       /\ AddItem(containerId, spec, Pos(x, y, z, spec.width, spec.depth, spec.height))
       /\ UNCHANGED ops
  \/ \E containerId \in ContainerIds, itemId \in CatalogueIds :
       RemoveItem(containerId, itemId) /\ UNCHANGED ops
  \/ \E containerId \in ContainerIds, itemId \in CatalogueIds :
       CalculateRetrievalSteps(containerId, itemId)
  \/ \E containerId \in ContainerIds, itemId \in CatalogueIds :
       WasteCalculateRetrievalSteps(containerId, itemId)
  \/ \E containerId \in ContainerIds, itemId \in CatalogueIds :
       GetItemsToMove(containerId, itemId)
  \/ \E containerId \in ContainerIds, spec \in ItemSpecs, position \in ObjectPositions :
       CanFitItem(containerId, spec, position)
  \/ \E containerId \in ContainerIds, spec \in ItemSpecs : FindPosition(containerId, spec)
  \/ \E containerId \in ContainerIds : Volumes(containerId)
  \/ Respond

SpecQueries == InitContainer /\ [][NextQueries]_vars

\* The planner before three item stores: the empty one, one holding W and
\* X, and one holding X, Y and Z. rearrangeForUnplacedItems is called on
\* containers filled by addItem, and placement requests arrive while the
\* constructed containers are empty.
EligibilityTables ==
  { NoItems,
    importItems([id \in {"W", "X"} |-> TRUE], NoItems),
    importItems([id \in {"X", "Y", "Z"} |-> id # "Y"], NoItems) }

InitEligibility ==
  /\ items \in EligibilityTables
  /\ \E ids \in (SUBSET ContainerIds) \ { {} } :
       containers = [id \in ContainerIds |->
                       IF id \in ids
                       THEN NewContainer(CHOOSE s \in PlanContainerSpecs : s.containerId = id)
                       ELSE Null]
  /\ ops = 0
  /\ res = Idle
  /\ currentDate = 0

NextEligibility ==
  \/ \E containerId \in ContainerIds, spec \in ItemSpecs, x, y, z \in 0..1 :
       /\ ops = 0
       /\ RecordsHeld < MaxRecords
       /\ ~ HeldAnywhere(spec.itemId)
       /\ containers[containerId] # Null
       /\ canFitItem(containers[containerId], NewItem(spec),
                     Pos(x, y, z, spec.width, spec.depth, spec.height))
       /\ AddItem(containerId, spec, Pos(x, y, z, spec.width, spec.depth, spec.height))
       /\ UNCHANGED ops
  \/ \E unplacedSpecs \in UNION { [1..n -> ItemSpecs] : n \in 1..MaxUnplaced } :
       \E order \in ResolveOrders :
         /\ ops = 0
         /\ \A i, j \in DOMAIN unplacedSpecs :
              i # j => unplacedSpecs[i].itemId # unplacedSpecs[j].itemId
         /\ \A i \in DOMAIN unplacedSpecs : ~ HeldAnywhere(unplacedSpecs[i].itemId)
         /\ Resolve(unplacedSpecs, order)
  \/ \E batch \in BatchesOf(ServiceItemSpecs), specs \in ContainerLists :
       /\ ops = 0
       /\ RecordsHeld = 0
       /\ PlacementRequest(batch, specs)
  \/ Respond

SpecEligibility == InitEligibility /\ [][NextEligibility]_vars

\* The waste service before a store of unit items X, Y and Z, each absent
\* or as an import of a row with a mass, a priority and a usage limit of 0
\* or 1 leaves it, and then placed in the stored container c1 or nowhere.
\* One return plan is asked for.
StockStates(id) ==
  { [NewItem([itemId |-> id, width |-> 1, depth |-> 1, height |-> 1, priority |-> p,
              preferredZone |-> "A", mass |-> m, expiryDate |-> NullNumber,
              usageLimit |-> u])
       EXCEPT !.containerId = cid,
              !.position = IF cid = NoId THEN Null ELSE Pos(0, 0, 0, 1, 1, 1)] :
      p \in 1..2, m \in 1..2, u \in 0..1, cid \in { NoId, "c1" } }

InitWaste ==
  /\ \E x \in { Null } \cup StockStates("X"),
        y \in { Null } \cup StockStates("Y"),
        z \in { Null } \cup StockStates("Z") :
       items = [id \in ItemIds |->
                  IF id = "X" THEN x ELSE IF id = "Y" THEN y ELSE IF id = "Z" THEN z ELSE Null]
  /\ containers = [id \in ContainerIds |->
                     IF id = "c1" THEN NewContainer(ContainerSpecOf("c1")) ELSE Null]
  /\ ops = 0
  /\ res = Idle
  /\ currentDate = 0

NextWaste ==
  \/ \E undockingContainerId \in StoreContainerIds, maxWeight \in 0..MaxWeight :
       ops = 0 /\ GenerateReturnPlan(undockingContainerId, maxWeight)
  \/ Respond

SpecWaste == InitWaste /\ [][NextWaste]_vars

\* The clock and the stock: Y and Z as an import of rows with a usage limit
\* and an expiry day leaves them, and simulateDays calls that use Y, Z or an
\* item the store does not hold.
ClockRows ==
  { [itemId |-> "Y", width |-> 1, depth |-> 1, height |-> 1, priority |-> 1,
     preferredZone |-> "B", mass |-> 1, expiryDate |-> 1, usageLimit |-> 2],
    [itemId |-> "Z", width |-> 1, depth |-> 1, height |-> 1, priority |-> 1,
     preferredZone |-> "A", mass |-> 1, expiryDate |-> NullNumber, usageLimit |-> 1] }

InitClock ==
  /\ \E rows \in SUBSET ClockRows :
       items = [id \in ItemIds |->
                  IF \E r \in rows : r.itemId = id
                  THEN NewItem(CHOOSE r \in rows : r.itemId = id)
                  ELSE Null]
  /\ containers = [id \in ContainerIds |-> Null]
  /\ ops = 0
  /\ res = Idle
  /\ currentDate = 0

NextClock ==
  \/ \E numOfDays \in (0 - 1)..MaxDays,
        itemsToBeUsedPerDay \in { << >>, << "Y" >>, << "Z" >>, << "Y", "Z" >>, << "X" >> } :
       ops < MaxOps /\ SimulateDays(numOfDays, itemsToBeUsedPerDay)
  \/ Respond

SpecClock == InitClock /\ [][NextClock]_vars

\* Items with a usage limit, sent to the planner without remainingUses and
\* then retrieved: Y with a limit of 0, 1 or 2 and Z with a limit of 1.
UsageSpecs ==
  { [itemId |-> "Y", width |-> 1, depth |-> 1, height |-> 1, priority |-> 1,
     preferredZone |-> "B", mass |-> 1, expiryDate |-> NullNumber, usageLimit |-> u] :
      u \in 0..2 }
  \cup
  { [itemId |-> "Z", width |-> 1, depth |-> 1, height |-> 1, priority |-> 1,
     preferredZone |-> "A", mass |-> 1, expiryDate |-> NullNumber, usageLimit |-> 1] }

NextUsage ==
  \/ \E batch \in BatchesOf(UsageSpecs), specs \in ContainerLists :
       ops < MaxOps /\ PlacementRequest(batch, specs)
  \/ \E itemId \in {"Y", "Z"} : ops < MaxOps /\ RetrieveItem(itemId)
  \/ \E itemId \in {"Y", "Z"}, containerId \in StoreContainerIds :
       ops < MaxOps /\ PlaceItem(itemId, containerId, Pos(0, 0, 0, 1, 1, 1))
  \/ Respond

SpecUsage == Init /\ [][NextUsage]_vars

\* The item store over an item's life: imported, placed by a placement
\* request or by placeItem, retrieved, and disposed of by an undocking.
NextLifecycle ==
  \/ \E file \in ItemFiles(StoreItemSpecs) : ops < MaxOps /\ ImportItems(file)
  \/ \E batch \in BatchesOf(StoreItemSpecs), specs \in ContainerLists :
       ops < MaxOps /\ PlacementRequest(batch, specs)
  \/ \E spec \in StoreItemSpecs, containerId \in StoreContainerIds, position \in Positions :
       ops < MaxOps /\ PlaceItem(spec.itemId, containerId, position)
  \/ \E spec \in StoreItemSpecs : ops < MaxOps /\ RetrieveItem(spec.itemId)
  \/ \E containerId \in StoreContainerIds : ops < MaxOps /\ CompleteUndocking(containerId)
  \/ Respond

SpecLifecycle == Init /\ [][NextLifecycle]_vars

\* findPositionInContainer run loop test by loop test on one Container
\* object filled by addItem with the items' own boxes. A call that has
\* entered runs on: JavaScript runs the synchronous method to completion.
NextScan ==
  \/ \E containerId \in ContainerIds, spec \in ItemSpecs, x, y, z \in 0..1 :
       /\ containers[containerId] # Null
       /\ Len(containers[containerId].items) < MaxRecords
       /\ ~ HeldAnywhere(spec.itemId)
       /\ AddItem(containerId, spec, Pos(x, y, z, spec.width, spec.depth, spec.height))
       /\ UNCHANGED ops
  \/ \E containerId \in ContainerIds, spec \in ItemSpecs : BeginScan(containerId, spec)
  \/ ScanStep
  \/ res.op # "scan" /\ Respond

SpecScan == InitContainer /\ [][NextScan]_vars /\ WF_vars(ScanStep)

\* ------------------------------------------------------------- Properties
\* The containers a state shows: the stored ones and, in the answer to a
\* placement request, the planner's working copies after each pass.
ShownContainers ==
  { containers[id] : id \in { i \in ContainerIds : containers[i] # Null } }
    \cup (IF res.op = "placement"
          THEN { res.before[i] : i \in DOMAIN res.before }
                 \cup { res.after[i] : i \in DOMAIN res.after }
          ELSE {})

Larger(a, b) == IF a > b THEN a ELSE b
Smaller(a, b) == IF a < b THEN a ELSE b

\* Two boxes share a region of positive length on the three axes.
Interpenetrate(p, q) ==
  /\ Larger(p.startCoordinates.width, q.startCoordinates.width)
       < Smaller(p.endCoordinates.width, q.endCoordinates.width)
  /\ Larger(p.startCoordinates.depth, q.startCoordinates.depth)
       < Smaller(p.endCoordinates.depth, q.endCoordinates.depth)
  /\ Larger(p.startCoordinates.height, q.startCoordinates.height)
       < Smaller(p.endCoordinates.height, q.endCoordinates.height)

\* C1: in every reachable container state, stored or worked on by the
\* planner, no two distinct records occupy boxes whose intersection has
\* positive length on all three axes; boxes that only touch are allowed.
C1_NoOverlap ==
  \A c \in ShownContainers :
    \A i, j \in 1..Len(c.items) :
      i # j => ~ Interpenetrate(c.items[i].position, c.items[j].position)

\* C1 witness: a stored container holds two records whose boxes share a face.
C1_Witness ==
  \E id \in ContainerIds :
    /\ containers[id] # Null
    /\ \E i, j \in 1..Len(containers[id].items) :
         LET p == containers[id].items[i].position
             q == containers[id].items[j].position
         IN /\ i # j
            /\ p.endCoordinates.width = q.startCoordinates.width
            /\ p.startCoordinates.depth = q.startCoordinates.depth
            /\ p.endCoordinates.depth = q.endCoordinates.depth

\* C9: every record of every reachable container has start coordinates >= 0
\* and end coordinates within the container's width, depth and height.
C9_InBounds ==
  \A c \in ShownContainers :
    \A i \in 1..Len(c.items) :
      LET p == c.items[i].position IN
      /\ p.startCoordinates.width >= 0
      /\ p.startCoordinates.depth >= 0
      /\ p.startCoordinates.height >= 0
      /\ p.endCoordinates.width <= c.width
      /\ p.endCoordinates.depth <= c.depth
      /\ p.endCoordinates.height <= c.height

\* C9 witness: a stored record lies flush against the far walls of its
\* container on the width and depth axes.
C9_Witness ==
  \E id \in ContainerIds :
    /\ containers[id] # Null
    /\ \E i \in 1..Len(containers[id].items) :
         LET p == containers[id].items[i].position IN
         /\ p.endCoordinates.width = containers[id].width
         /\ p.endCoordinates.depth = containers[id].depth
         /\ containers[id].width > 1

\* The (container index, record index) pairs at which a list of containers
\* holds a record for an item id.
Holders(cs, itemId) ==
  { pr \in (DOMAIN cs) \X (1..MaxRecords + MaxBatch) :
      /\ pr[2] <= Len(cs[pr[1]].items)
      /\ cs[pr[1]].items[pr[2]].itemId = itemId }

HeldIds(cs) == { id \in ItemIds : Holders(cs, id) # {} }

UnplacedIds == { res.unplaced[i].itemId : i \in DOMAIN res.unplaced }

\* C2: a rearrangeForUnplacedItems call keeps every item id that some
\* container held before it in exactly one container afterwards, and adds
\* only ids of the unplaced items it was given; no evicted occupant ends
\* the call outside every container.
C2_EvictionConservation ==
  (res.op = "placement" /\ Len(res.unplaced) > 0) =>
    /\ \A id \in HeldIds(res.before) : Cardinality(Holders(res.after, id)) = 1
    /\ \A id \in HeldIds(res.after) \ HeldIds(res.before) : id \in UnplacedIds

\* C3: after placement requests and placeItem calls, every stored item with
\* a container id has exactly one record in that stored container, at the
\* item's own position, and no record in any other stored container.
C3_Consistency ==
  \A id \in ItemIds :
    (items[id] # Null /\ items[id].containerId # NoId) =>
      /\ containers[items[id].containerId] # Null
      /\ \E i \in 1..Len(containers[items[id].containerId].items) :
           LET recs == containers[items[id].containerId].items IN
           /\ recs[i].itemId = id
           /\ recs[i].position = items[id].position
           /\ \A j \in 1..Len(recs) : recs[j].itemId = id => j = i
      /\ \A other \in ContainerIds \ { items[id].containerId } :
           containers[other] # Null =>
             \A j \in 1..Len(containers[other].items) :
               containers[other].items[j].itemId # id

\* C4: findOptimalPlacement answers success = true exactly when every item
\* of the batch has an entry in the returned placements.
C4_SuccessIffAllPlaced ==
  res.op = "placement" =>
    (res.success <=>
       \A i \in DOMAIN res.batch :
         \E k \in DOMAIN res.placements : res.placements[k].itemId = res.batch[i].itemId)

\* C7: no placement returned for a container overlaps the box of a record
\* of another item that the container held when it was handed to
\* findOptimalPlacement.
C7_OccupancyReused ==
  res.op = "placement" =>
    \A k \in DOMAIN res.placements, g \in DOMAIN res.given :
      res.given[g].containerId = res.placements[k].containerId =>
        \A i \in 1..Len(res.given[g].items) :
          res.given[g].items[i].itemId # res.placements[k].itemId =>
            ~ Interpenetrate(res.placements[k].position, res.given[g].items[i].position)

\* The unplaced items that an eviction placed: a remove step is followed at
\* once by the place step of the item.
PlacedByEviction ==
  { id \in UnplacedIds :
      \E k \in 1..(Len(res.rearrangements) - 1) :
        /\ res.rearrangements[k].action = "remove"
        /\ res.rearrangements[k + 1].action = "place"
        /\ res.rearrangements[k + 1].itemId = id }

\* C8: the transcript of rearrangeForUnplacedItems holds at most one remove
\* step per unplaced item that an eviction placed.
C8_OneEvictionPerItem ==
  res.op = "placement" =>
    Cardinality({ k \in DOMAIN res.rearrangements : res.rearrangements[k].action = "remove" })
      <= Cardinality(PlacedByEviction)

\* C10: after any sequence of addItem and removeItem calls no container
\* holds two records with the same item id.
C10_UniqueIds ==
  \A id \in ContainerIds :
    containers[id] # Null =>
      \A i, j \in 1..Len(containers[id].items) :
        containers[id].items[i].itemId = containers[id].items[j].itemId => i = j

\* The integer origins at which canFitItem accepts the item's box.
FitOrigins(item, c) ==
  { o \in (0..c.width) \X (0..c.depth) \X (0..c.height) :
      canFitItem(c, item, Pos(o[1], o[2], o[3], item.width, item.depth, item.height)) }

\* Origin o is not after origin p in the order by height, then depth, then width.
NotAfter(o, p) ==
  \/ o[3] < p[3]
  \/ o[3] = p[3] /\ o[2] < p[2]
  \/ o[3] = p[3] /\ o[2] = p[2] /\ o[1] <= p[1]

LeastFit(item, c) ==
  IF FitOrigins(item, c) = {} THEN Null
  ELSE LET o == CHOOSE o \in FitOrigins(item, c) :
                  \A p \in FitOrigins(item, c) : NotAfter(o, p)
       IN Pos(o[1], o[2], o[3], item.width, item.depth, item.height)

\* The 10 x 10 x 10 container and the 4 x 4 x 4 items A and B of the
\* specification's placement scenario.
ScenarioContainer ==
  NewContainer([containerId |-> "C1", zone |-> "A", width |-> 10, depth |-> 10, height |-> 10])

ScenarioItem(id) ==
  NewItem([itemId |-> id, width |-> 4, depth |-> 4, height |-> 4, priority |-> 1,
           preferredZone |-> "A"])

\* C5: findPositionInContainer returns the least origin, ordered by height,
\* then depth, then width, at which canFitItem holds, and null iff no
\* integer origin fits; an item that fits an empty container gets the
\* origin (0,0,0), and beside a 4 x 4 x 4 item at the origin of a
\* 10 x 10 x 10 container a second one gets start (4,0,0).
C5_FirstFit ==
  /\ res.op = "findPosition" =>
       res.position = LeastFit(res.item, containers[res.containerId])
  /\ \A spec \in ItemSpecs, cs \in ContainerSpecs :
       (spec.width <= cs.width /\ spec.depth <= cs.depth /\ spec.height <= cs.height) =>
         findPositionInContainer(NewItem(spec), NewContainer(cs))
           = Pos(0, 0, 0, spec.width, spec.depth, spec.height)
  /\ findPositionInContainer(ScenarioItem("A"), ScenarioContainer) = Pos(0, 0, 0, 4, 4, 4)
  /\ findPositionInContainer(ScenarioItem("B"),
                             addItem(ScenarioContainer, ScenarioItem("A"), Pos(0, 0, 0, 4, 4, 4)))
       = Pos(4, 0, 0, 4, 4, 4)

\* C5 witness: a search in a container with three records passed three
\* occupied origins and answered the fourth, start (1,1,0).
C5_Witness ==
  /\ res.op = "findPosition"
  /\ Len(containers[res.containerId].items) = 3
  /\ res.position # Null
  /\ res.position.startCoordinates = [width |-> 1, depth |-> 1, height |-> 0]

\* The transcript for a blocking list b and a target: remove and setAside
\* for b[1] .. b[n], retrieve, placeBack for b[n] .. b[1], numbered from 1.
StackTranscript(b, target) ==
  LET n == Len(b) IN
  [k \in 1..(3 * n + 1) |->
     IF k <= 2 * n
     THEN RStep(k, IF k % 2 = 1 THEN "remove" ELSE "setAside", b[(k + 1) \div 2].itemId)
     ELSE IF k = 2 * n + 1
     THEN RStep(k, "retrieve", target)
     ELSE RStep(k, "placeBack", b[3 * n + 2 - k].itemId)]

CountAction(steps, action) ==
  Cardinality({ k \in DOMAIN steps : steps[k].action = action })

\* C6: for a target item of the store, calculateRetrievalSteps emits remove
\* and setAside for each item of getItemsToMove in order, then retrieve for
\* the target, then placeBack in the reverse order; there are as many
\* placeBack steps as remove steps, and with nothing blocking the
\* transcript is the single retrieve step.
C6_StackDiscipline ==
  (res.op = "steps" /\ ~ res.threw) =>
    LET b == getItemsToMove(containers[res.containerId], res.itemId) IN
    /\ res.steps = StackTranscript(b, res.itemId)
    /\ CountAction(res.steps, "placeBack") = CountAction(res.steps, "remove")
    /\ Len(b) = 0 => res.steps = << RStep(1, "retrieve", res.itemId) >>

\* C6 witness: a transcript for a target behind two blocking items with
\* different ids.
C6_Witness ==
  /\ res.op = "steps"
  /\ ~ res.threw
  /\ LET b == getItemsToMove(containers[res.containerId], res.itemId) IN
     /\ Len(b) = 2
     /\ b[1].itemId # b[2].itemId
     /\ Len(res.steps) = 7

\* Index in the batch of the item with an id.
BatchIndex(itemId) == CHOOSE i \in DOMAIN res.batch : res.batch[i].itemId = itemId

\* Batch item i comes before batch item j in the order descending by
\* priority with ties in input order.
AttemptedBefore(i, j) ==
  \/ res.batch[i].priority > res.batch[j].priority
  \/ res.batch[i].priority = res.batch[j].priority /\ i < j

\* The placements of the first pass: one per batch item not left unplaced.
DirectPlacements == SubSeq(res.placements, 1, Len(res.batch) - Len(res.unplaced))

\* C11: findOptimalPlacement attempts the batch in descending priority with
\* ties in input order: the sorted list is the batch rearranged so, and the
\* direct placements, like the unplaced items, appear in that order.
C11_PriorityOrder ==
  res.op = "placement" =>
    LET sorted == sortByPriority(res.batch) IN
    /\ Len(sorted) = Len(res.batch)
    /\ \A i \in DOMAIN res.batch :
         sorted[1 + Cardinality({ j \in DOMAIN res.batch : AttemptedBefore(j, i) })] = res.batch[i]
    /\ \A a, b \in DOMAIN DirectPlacements :
         a < b => AttemptedBefore(BatchIndex(DirectPlacements[a].itemId),
                                  BatchIndex(DirectPlacements[b].itemId))
    /\ \A a, b \in DOMAIN res.unplaced :
         a < b => AttemptedBefore(BatchIndex(res.unplaced[a].itemId),
                                  BatchIndex(res.unplaced[b].itemId))

\* C11 witness: a batch of three directly placed items whose first two have
\* equal priority and whose last has a higher one.
C11_Witness ==
  /\ res.op = "placement"
  /\ Len(res.batch) = 3
  /\ Len(res.unplaced) = 0
  /\ res.batch[1].priority = res.batch[2].priority
  /\ res.batch[3].priority > res.batch[1].priority
  /\ Len(res.placements) = 3

\* The working containers at the turn of batch item i in the first pass:
\* the given containers, emptied, each holding the records of the direct
\* placements made for the items attempted before i.
TurnContainers(i) ==
  [g \in DOMAIN res.given |->
     LET mine(p) == /\ p.containerId = res.given[g].containerId
                    /\ AttemptedBefore(BatchIndex(p.itemId), i)
         earlier == SelectSeq(DirectPlacements, mine)
     IN [res.given[g] EXCEPT !.items =
           [k \in DOMAIN earlier |->
              Rec(res.batch[BatchIndex(earlier[k].itemId)], earlier[k].position)]]]

Admits(i, g) == findPositionInContainer(res.batch[i], TurnContainers(i)[g]) # Null

LeastIndex(S) == CHOOSE g \in S : \A h \in S : g <= h

\* The container batch item i must get: the first in input order of its
\* preferred zone that admits it, else the first of another zone that
\* admits it, else none (0).
ContainerDue(i) ==
  LET preferred == { g \in DOMAIN res.given :
                       res.given[g].zone = res.batch[i].preferredZone /\ Admits(i, g) }
      others == { g \in DOMAIN res.given :
                    res.given[g].zone # res.batch[i].preferredZone /\ Admits(i, g) }
  IN IF preferred # {} THEN LeastIndex(preferred)
     ELSE IF others # {} THEN LeastIndex(others)
     ELSE 0

\* C12: at its turn in the first pass an item goes to the first container
\* of its preferred zone that admits a position, else to the first
\* container of another zone that admits one, and is left for the second
\* pass only when no container admits it.
C12_ZoneFirstFit ==
  res.op = "placement" =>
    \A i \in DOMAIN res.batch :
      LET due == ContainerDue(i)
          direct == { k \in DOMAIN DirectPlacements :
                        DirectPlacements[k].itemId = res.batch[i].itemId }
          left == { u \in DOMAIN res.unplaced : res.unplaced[u].itemId = res.batch[i].itemId }
      IN IF due = 0
         THEN direct = {} /\ Cardinality(left) = 1
         ELSE /\ left = {}
              /\ Cardinality(direct) = 1
              /\ \A k \in direct :
                   /\ DirectPlacements[k].containerId = res.given[due].containerId
                   /\ DirectPlacements[k].position
                        = findPositionInContainer(res.batch[i], TurnContainers(i)[due])

\* C12 witness: one item went to a container of its preferred zone although
\* the first container of the list, of another zone, admitted it, and
\* another item of the batch was admitted by no container at its turn.
C12_Witness ==
  /\ res.op = "placement"
  /\ \E i \in DOMAIN res.batch :
       /\ ContainerDue(i) > 1
       /\ res.given[1].zone # res.batch[i].preferredZone
       /\ Admits(i, 1)
  /\ \E j \in DOMAIN res.batch : ContainerDue(j) = 0

\* Two intervals [a0, a1] and [b0, b1] share a stretch of positive length.
Intersect(a0, a1, b0, b1) == Larger(a0, b0) < Smaller(a1, b1)

\* C13: getItemsToMove returns, in the container's insertion order, exactly
\* the records with another id than the target whose start depth is
\* strictly lower than the target's and whose width and height intervals
\* both intersect the target's with positive length; the target is never
\* in the result, and without a record for the target the result is empty.
C13_ItemsBlocking ==
  res.op = "itemsToMove" =>
    LET recs == containers[res.containerId].items
        present == \E i \in DOMAIN recs : recs[i].itemId = res.itemId
        target == recs[CHOOSE i \in DOMAIN recs :
                         /\ recs[i].itemId = res.itemId
                         /\ \A j \in 1..(i - 1) : recs[j].itemId # res.itemId]
        inFront(r) ==
          /\ r.itemId # res.itemId
          /\ r.position.startCoordinates.depth < target.position.startCoordinates.depth
          /\ Intersect(r.position.startCoordinates.width, r.position.endCoordinates.width,
                       target.position.startCoordinates.width, target.position.endCoordinates.width)
          /\ Intersect(r.position.startCoordinates.height, r.position.endCoordinates.height,
                       target.position.startCoordinates.height, target.position.endCoordinates.height)
    IN /\ res.itemsToMove = (IF present THEN SelectSeq(recs, inFront) ELSE << >>)
       /\ \A k \in DOMAIN res.itemsToMove : res.itemsToMove[k].itemId # res.itemId

\* C13 witness: two records block the target and are returned in insertion
\* order, the one further along the width axis first.
C13_Witness ==
  /\ res.op = "itemsToMove"
  /\ Len(res.itemsToMove) = 2
  /\ res.itemsToMove[1].position.startCoordinates.width
       > res.itemsToMove[2].position.startCoordinates.width

\* The steps of the transcript with an action and an item id.
StepsOf(action, itemId) ==
  { k \in DOMAIN res.rearrangements :
      /\ res.rearrangements[k].action = action
      /\ res.rearrangements[k].itemId = itemId }

\* rearrangeForUnplacedItems was called for the single item H of priority 9
\* with the single container C1, where record L, of stored priority 1,
\* occupies the only space that would fit H: H does not fit C1 as it is,
\* fits once L is removed, and fits after the removal of no other record.
EvictionScenario(L) ==
  /\ res.op = "resolve"
  /\ Len(res.unplaced) = 1
  /\ Len(res.before) = 1
  /\ res.unplaced[1].priority = 9
  /\ \E i \in 1..Len(res.before[1].items) : res.before[1].items[i].itemId = L
  /\ items[L] # Null
  /\ items[L].priority = 1
  /\ findPositionInContainer(res.unplaced[1], res.before[1]) = Null
  /\ \A i \in 1..Len(res.before[1].items) :
       (findPositionInContainer(res.unplaced[1],
                                removeItem(res.before[1], res.before[1].items[i].itemId)) # Null)
         <=> res.before[1].items[i].itemId = L

\* C14: in that scenario the call places H in C1 and its transcript holds a
\* remove step for L, after it exactly one place step for L, and exactly
\* one place step for H.
C14_EvictAndPlace ==
  \A L \in ItemIds :
    EvictionScenario(L) =>
      LET H == res.unplaced[1].itemId IN
      /\ \E k \in DOMAIN res.placements :
           /\ res.placements[k].itemId = H
           /\ res.placements[k].containerId = res.before[1].containerId
      /\ \E i \in 1..Len(res.after[1].items) : res.after[1].items[i].itemId = H
      /\ StepsOf("remove", L) # {}
      /\ Cardinality(StepsOf("place", L)) = 1
      /\ \A p \in StepsOf("place", L) : \E r \in StepsOf("remove", L) : r < p
      /\ Cardinality(StepsOf("place", H)) = 1

\* C14 witness: the scenario has happened, with a transcript of three steps.
C14_Witness ==
  /\ \E L \in ItemIds : EvictionScenario(L)
  /\ Len(res.rearrangements) = 3

\* The box of the given dimensions at the position's start.
BoxOf(position, dims) ==
  /\ position.endCoordinates.width = position.startCoordinates.width + dims.width
  /\ position.endCoordinates.depth = position.startCoordinates.depth + dims.depth
  /\ position.endCoordinates.height = position.startCoordinates.height + dims.height

\* C15: every position findPositionInContainer returns (the placements of a
\* placement request carry them), and every position held in a stored
\* container record after placement requests and placeItem calls, has
\* end = start + (width, depth, height) of its item on each axis.
C15_EndIsStartPlusDimensions ==
  /\ \A id \in ContainerIds :
       containers[id] # Null =>
         \A i \in 1..Len(containers[id].items) :
           BoxOf(containers[id].items[i].position, containers[id].items[i])
  /\ res.op = "placement" =>
       \A c \in { res.after[i] : i \in DOMAIN res.after } :
         \A i \in 1..Len(c.items) : BoxOf(c.items[i].position, c.items[i])

\* The box has a negative start coordinate or ends beyond the container.
OutOfBounds(c, p) ==
  \/ p.startCoordinates.width < 0
  \/ p.startCoordinates.depth < 0
  \/ p.startCoordinates.height < 0
  \/ p.endCoordinates.width > c.width
  \/ p.endCoordinates.depth > c.depth
  \/ p.endCoordinates.height > c.height

\* Two boxes meet on a face: one ends where the other starts on some axis.
Touch(p, q) ==
  \/ p.endCoordinates.width = q.startCoordinates.width
  \/ q.endCoordinates.width = p.startCoordinates.width
  \/ p.endCoordinates.depth = q.startCoordinates.depth
  \/ q.endCoordinates.depth = p.startCoordinates.depth
  \/ p.endCoordinates.height = q.startCoordinates.height
  \/ q.endCoordinates.height = p.startCoordinates.height

\* C16: canFitItem returns false exactly when the position starts below 0
\* or ends beyond the container on some axis, or its box shares a region of
\* positive volume with the box of a held record; a box that only touches
\* the held boxes on faces, inside the container, is answered with true.
C16_CanFit ==
  res.op = "canFit" =>
    LET c == containers[res.containerId]
    IN /\ (~ res.fits) <=>
            \/ OutOfBounds(c, res.position)
            \/ \E i \in 1..Len(c.items) : Interpenetrate(c.items[i].position, res.position)
       /\ ( /\ ~ OutOfBounds(c, res.position)
            /\ \A i \in 1..Len(c.items) :
                 \/ Touch(c.items[i].position, res.position)
                 \/ ~ Interpenetrate(c.items[i].position, res.position) )
            => res.fits

\* canFitItem answers true for a box that touches a held box, and the same
\* container refuses another box for overlap alone.
C16_Witness ==
  /\ res.op = "canFit"
  /\ res.fits
  /\ \E i \in 1..Len(containers[res.containerId].items) :
       Touch(containers[res.containerId].items[i].position, res.position)
  /\ \E p \in ObjectPositions :
       /\ ~ OutOfBounds(containers[res.containerId], p)
       /\ ~ canFitItem(containers[res.containerId], NewItem(ItemSpecOf("Y")), p)

\* C17: addItem returns true exactly when canFitItem holds for the position
\* in the container as it is at the call, and then the records are the
\* former ones followed by the new record; when canFitItem does not hold it
\* returns false and the container is as before.
C17_AddItem ==
  res.op = "add" =>
    LET before == res.container
        after == containers[res.containerId]
        item == NewItem(ItemSpecOf(res.itemId))
        fits == canFitItem(before, item, res.position)
    IN /\ res.success <=> fits
       /\ fits => after = [before EXCEPT !.items = Append(@, Rec(item, res.position))]
       /\ ~ fits => after = before

\* addItem refuses, for overlap alone, a box inside a container that holds
\* records added by earlier calls.
C17_Witness ==
  /\ res.op = "add"
  /\ ~ res.success
  /\ Len(res.container.items) >= 1
  /\ ~ OutOfBounds(res.container, res.position)
  /\ containers[res.containerId] = res.container

\* C18: removeItem on an id that has a record returns a record of that id
\* held before the call, position included, and leaves the container with
\* one record fewer and none for that id; on an id with no record it returns
\* null and leaves the container as it was.
C18_RemoveItem ==
  res.op = "remove" =>
    LET before == res.container
        after == containers[res.containerId]
        held(c) == \E i \in 1..Len(c.items) : c.items[i].itemId = res.itemId
    IN IF held(before)
       THEN /\ \E i \in 1..Len(before.items) : before.items[i] = res.removed
            /\ res.removed.itemId = res.itemId
            /\ Len(after.items) = Len(before.items) - 1
            /\ ~ held(after)
       ELSE /\ res.removed = Null
            /\ after = before

\* The transcript of a rearrangeForUnplacedItems call read back as
\* evictions: steps 3g-2, 3g-1 and 3g are the removal of an occupant, the
\* placement of the unplaced item and the placement of the occupant.
Evictions == 1..(Len(res.rearrangements) \div 3)

EvictionFor(g) == res.rearrangements[3 * g - 1].itemId

UnplacedIndex(itemId) ==
  CHOOSE i \in DOMAIN res.unplaced : res.unplaced[i].itemId = itemId

MapIndex(cm, containerId) ==
  CHOOSE k \in DOMAIN cm : cm[k].containerId = containerId

\* The containers after eviction g is carried out on containers cm.
AfterEviction(cm, g) ==
  LET rm == res.rearrangements[3 * g - 2]
      pu == res.rearrangements[3 * g - 1]
      pl == res.rearrangements[3 * g]
      c == MapIndex(cm, rm.fromContainer)
      lp == removedItem(cm[c], rm.itemId)
      cm1 == [cm EXCEPT ![c] = addItem(removeItem(@, rm.itemId),
                                       res.unplaced[UnplacedIndex(pu.itemId)], pu.toPosition)]
  IN [cm1 EXCEPT ![MapIndex(cm, pl.toContainer)] = addItem(@, lp, pl.toPosition)]

\* The containers after the evictions numbered g to last that were made on
\* behalf of the item are carried out on cm.
RECURSIVE AfterEvictionsFor(_, _, _, _)
AfterEvictionsFor(cm, itemId, g, last) ==
  IF g > last THEN cm
  ELSE AfterEvictionsFor(IF EvictionFor(g) = itemId THEN AfterEviction(cm, g) ELSE cm,
                         itemId, g + 1, last)

\* The containers once the first i unplaced items have had their turn: the
\* evictions made for an item come first, and a placement of the item that
\* no eviction accounts for comes last.
RECURSIVE AfterTurns(_)
AfterTurns(i) ==
  IF i = 0 THEN res.before
  ELSE LET item == res.unplaced[i]
           cm == AfterEvictionsFor(AfterTurns(i - 1), item.itemId, 1, Len(res.rearrangements) \div 3)
           entries == { k \in DOMAIN res.placements : res.placements[k].itemId = item.itemId }
           made == { g \in Evictions : EvictionFor(g) = item.itemId }
       IN IF Cardinality(entries) > Cardinality(made)
          THEN LET p == res.placements[CHOOSE k \in entries : \A j \in entries : j <= k]
               IN [cm EXCEPT ![MapIndex(cm, p.containerId)] = addItem(@, item, p.position)]
          ELSE cm

\* The containers at the moment eviction g starts.
BeforeEviction(g) ==
  AfterEvictionsFor(AfterTurns(UnplacedIndex(EvictionFor(g)) - 1), EvictionFor(g), 1, g - 1)

\* The occupants of c whose stored priority is below the item's.
Eligible(c, item) ==
  { i \in 1..Len(c.items) :
      /\ items[c.items[i].itemId] # Null
      /\ items[c.items[i].itemId].priority < item.priority }

\* The item fits c once the i-th record is taken out, and nothing else is.
FreesSpace(c, i, item) ==
  FitOrigins(item, [c EXCEPT !.items = SubSeq(@, 1, i - 1) \o SubSeq(@, i + 1, Len(@))]) # {}

\* C19: every remove step of rearrangeForUnplacedItems names an occupant
\* whose priority in the item store is strictly lower than the priority of
\* the unplaced item it makes room for, whose removal alone lets that item
\* fit the container, and whose priority is the lowest among the eligible
\* occupants of that container of which the same is true.
C19_LowestEligibleEvicted ==
  res.op = "resolve" =>
    \A g \in Evictions :
      LET rm == res.rearrangements[3 * g - 2]
          item == res.unplaced[UnplacedIndex(EvictionFor(g))]
          cm == BeforeEviction(g)
          c == cm[MapIndex(cm, rm.fromContainer)]
      IN /\ rm.action = "remove"
         /\ \E i \in Eligible(c, item) :
              /\ c.items[i].itemId = rm.itemId
              /\ c.items[i].position = rm.fromPosition
              /\ FreesSpace(c, i, item)
              /\ \A j \in Eligible(c, item) :
                   FreesSpace(c, j, item) =>
                     items[rm.itemId].priority <= items[c.items[j].itemId].priority

\* An eviction chose between two eligible occupants that each free the
\* space: the one removed has the lower stored priority and stands behind
\* the other in the container's records.
C19_Witness ==
  /\ res.op = "resolve"
  /\ \E g \in Evictions :
       LET rm == res.rearrangements[3 * g - 2]
           item == res.unplaced[UnplacedIndex(EvictionFor(g))]
           cm == BeforeEviction(g)
           c == cm[MapIndex(cm, rm.fromContainer)]
       IN \E i, j \in Eligible(c, item) :
            /\ j < i
            /\ c.items[i].itemId = rm.itemId
            /\ FreesSpace(c, i, item)
            /\ FreesSpace(c, j, item)
            /\ items[rm.itemId].priority < items[c.items[j].itemId].priority

\* C20: an unplaced item on whose behalf rearrangeForUnplacedItems records
\* a remove step has an entry in the returned placements, and when the call
\* returns the container that entry names holds a record of the item at
\* the position the entry names.
C20_EvictionPlaces ==
  res.op \in { "resolve", "placement" } =>
    \A g \in Evictions :
      \E k \in DOMAIN res.placements :
        /\ res.placements[k].itemId = EvictionFor(g)
        /\ \E m \in DOMAIN res.after :
             /\ res.after[m].containerId = res.placements[k].containerId
             /\ \E i \in 1..Len(res.after[m].items) :
                  /\ res.after[m].items[i].itemId = EvictionFor(g)
                  /\ res.after[m].items[i].position = res.placements[k].position

\* Items of the same dimensions as the given one: any id, priority and zone.
SameDimensions(item) ==
  { [item EXCEPT !.itemId = id] : id \in ItemIds }
    \cup { [item EXCEPT !.priority = p] : p \in {0, 1, 9} }
    \cup { [item EXCEPT !.itemId = id, !.priority = 9 - @, !.preferredZone = zone] :
             id \in {"Y", "Z"}, zone \in {"A", "B"} }

\* Containers of the same dimensions and occupancy as the given one: any
\* id and zone, the same boxes held in any order of the records, the records
\* bearing the ids and priorities they have or others.
SameOccupancy(c) ==
  LET n == Len(c.items)
      orders == { f \in [1..n -> 1..n] : \A i, j \in 1..n : i # j => f[i] # f[j] }
      relabel(rec) == [rec EXCEPT !.itemId = IF @ = "Y" THEN "Z" ELSE "Y",
                                  !.priority = 9 - @]
  IN { [c EXCEPT !.containerId = id, !.zone = zone] :
         id \in ContainerIds, zone \in {"A", "B"} }
       \cup { [c EXCEPT !.items = [i \in 1..n |-> c.items[f[i]]]] : f \in orders }
       \cup { [c EXCEPT !.items = [i \in 1..n |-> relabel(c.items[i])]] }

\* C21: the position findPositionInContainer returns for an item and a
\* container is the one it returns for every item of the same dimensions
\* and every container of the same dimensions holding the same boxes,
\* whatever the ids, priorities, zones and the order of the records.
C21_Determinism ==
  res.op = "findPosition" =>
    /\ \A item \in SameDimensions(res.item) :
         findPositionInContainer(item, containers[res.containerId]) = res.position
    /\ \A c \in SameOccupancy(containers[res.containerId]) :
         findPositionInContainer(res.item, c) = res.position

\* A position was found in a container that holds two records, one of them
\* a record of the very item asked about.
C21_Witness ==
  /\ res.op = "findPosition"
  /\ res.position # Null
  /\ Len(containers[res.containerId].items) >= 2
  /\ \E i \in 1..Len(containers[res.containerId].items) :
       containers[res.containerId].items[i].itemId = res.item.itemId

\* C22: a step that answers calculateRetrievalSteps, getItemsToMove,
\* canFitItem, findPositionInContainer or the volume queries leaves every
\* container's records and every item's fields as they were.
C22_QueriesReadOnly ==
  [][res'.op \in { "steps", "itemsToMove", "canFit", "findPosition", "volumes" }
       => (containers' = containers /\ items' = items)]_vars

\* The retrieval steps were computed for a stored item that a record of the
\* container blocks.
C22_Witness ==
  /\ res.op = "steps"
  /\ ~ res.threw
  /\ Len(res.steps) > 1
  /\ Len(containers[res.containerId].items) >= 2

\* C23: calculateRetrievalSteps asked for an item id that has no record in
\* the container, or that the item store does not hold, signals the failure
\* instead of returning steps, and in particular returns no transcript with
\* a retrieve step for that id.
C23_LookupFailureSignalled ==
  res.op = "steps" =>
    LET c == containers[res.containerId]
        held == \E i \in 1..Len(c.items) : c.items[i].itemId = res.itemId
    IN (~ held \/ items[res.itemId] = Null) =>
         /\ res.threw
         /\ \A k \in DOMAIN res.steps :
              ~ (res.steps[k].action = "retrieve" /\ res.steps[k].itemId = res.itemId)

\* C24: in every state of the item store, each stored item has its
\* containerId and its position both set or both unset.
C24_NeverPartiallyPlaced ==
  \A id \in ItemIds :
    items[id] # Null => ((items[id].containerId = NoId) <=> (items[id].position = Null))

\* An undocking has disposed of an item while another stored item stays
\* placed, container id and position set.
C24_Witness ==
  /\ res.op = "undock"
  /\ res.itemsRemoved >= 1
  /\ \E id \in ItemIds :
       /\ items[id] # Null
       /\ items[id].containerId # NoId
       /\ items[id].position # Null

\* The (item id, position) pairs a container holds.
HeldAt(c) ==
  { << c.items[i].itemId, c.items[i].position >> : i \in 1..Len(c.items) }

\* The i-th unplaced item cannot be placed when its turn comes: no
\* container admits it as it is, nor after the removal of one eligible
\* occupant.
CannotBePlaced(i) ==
  LET item == res.unplaced[i]
      cm == AfterTurns(i - 1)
  IN \A k \in DOMAIN cm :
       /\ FitOrigins(item, cm[k]) = {}
       /\ \A j \in Eligible(cm[k], item) : ~ FreesSpace(cm[k], j, item)

\* C25: an unplaced item that rearrangeForUnplacedItems cannot place gets
\* no entry in placements and no step in the transcript, and its turn
\* leaves in every container the (item id, position) records that were
\* there: the containers after the turn are the containers before it, and
\* the containers the call returns are those the other items' placements
\* and steps account for.
C25_FailedItemLeavesNoTrace ==
  res.op = "resolve" =>
    \A i \in DOMAIN res.unplaced :
      CannotBePlaced(i) =>
        /\ \A k \in DOMAIN res.placements : res.placements[k].itemId # res.unplaced[i].itemId
        /\ \A k \in DOMAIN res.rearrangements :
             res.rearrangements[k].itemId # res.unplaced[i].itemId
        /\ \A k \in DOMAIN res.after :
             /\ HeldAt(AfterTurns(i)[k]) = HeldAt(AfterTurns(i - 1)[k])
             /\ HeldAt(res.after[k]) = HeldAt(AfterTurns(Len(res.unplaced))[k])
             /\ Len(res.after[k].items) = Len(AfterTurns(Len(res.unplaced))[k].items)

\* The only unplaced item of a call could not be placed although occupants
\* were tentatively removed for it: the records of a container are the
\* same as before, in another order.
C25_Witness ==
  /\ res.op = "resolve"
  /\ Len(res.unplaced) = 1
  /\ CannotBePlaced(1)
  /\ \E k \in DOMAIN res.before :
       /\ Cardinality(Eligible(res.before[k], res.unplaced[1])) >= 2
       /\ res.after[k].items # res.before[k].items
       /\ HeldAt(res.after[k]) = HeldAt(res.before[k])

\* The last place step of the transcript for the item id, 0 if none.
LastPlaceStep(itemId) ==
  IF StepsOf("place", itemId) = {} THEN 0
  ELSE CHOOSE k \in StepsOf("place", itemId) : \A j \in StepsOf("place", itemId) : j <= k

\* C26: when rearrangeForUnplacedItems returns, every item id with a place
\* step in the transcript is held by the container its last place step
\* names, at the position that step names, and by no other container.
C26_TranscriptFaithful ==
  res.op = "resolve" =>
    \A id \in ItemIds :
      LastPlaceStep(id) # 0 =>
        LET s == res.rearrangements[LastPlaceStep(id)] IN
        \A m \in DOMAIN res.after :
          IF res.after[m].containerId = s.toContainer
          THEN << id, s.toPosition >> \in HeldAt(res.after[m])
          ELSE \A i \in 1..Len(res.after[m].items) : res.after[m].items[i].itemId # id

\* C27: a findPositionInContainer call that has entered its loops ends,
\* with a position or with null, and what it returns is the value
\* placeAll and resolve receive from it; their own loops run once over the
\* finite lists they are given.
C27_Terminates ==
  /\ (res.op = "scan") ~> (res.op = "findPosition")
  /\ [](res.op = "findPosition" =>
          res.position = findPositionInContainer(res.item, containers[res.containerId]))

\* The loops were run to their end for an item no larger than the
\* container, which holds records, and null was returned.
C27_Witness ==
  /\ res.op = "findPosition"
  /\ res.position = Null
  /\ res.item.width <= containers[res.containerId].width
  /\ res.item.depth <= containers[res.containerId].depth
  /\ res.item.height <= containers[res.containerId].height
  /\ Len(containers[res.containerId].items) >= 1

\* C28: on every container state and target item id the retrieval steps of
\* WasteService.calculateRetrievalSteps are those of
\* RetrievalService.calculateRetrievalSteps: the same actions, item ids and
\* step numbers in the same order, and an error in the same cases.
C28_WasteStepsSame ==
  /\ res.op = "wasteSteps" =>
       /\ res.threw = (items[res.itemId] = Null)
       /\ ~ res.threw =>
            res.steps = calculateRetrievalSteps(res.itemId, containers[res.containerId])
  /\ res.op = "steps" =>
       /\ res.threw = (items[res.itemId] = Null)
       /\ ~ res.threw =>
            res.steps = wasteCalculateRetrievalSteps(res.itemId, containers[res.containerId])

\* The waste service answered for a target with an item in front of it.
C28_Witness ==
  /\ res.op = "wasteSteps"
  /\ ~ res.threw
  /\ Len(res.steps) >= 4
  /\ res.steps[1].action = "remove"

\* The available volume of a container when the turn of the i-th unplaced
\* item starts.
VolumeAtTurn(i, containerId) ==
  LET cm == AfterTurns(i - 1)
  IN getAvailableVolume(cm[MapIndex(cm, containerId)])

\* Container a stands before container b in the turn of the i-th unplaced
\* item: larger available volume, or the same and earlier in the map.
TriedBefore(i, a, b) ==
  \/ VolumeAtTurn(i, a) > VolumeAtTurn(i, b)
  \/ /\ VolumeAtTurn(i, a) = VolumeAtTurn(i, b)
     /\ MapIndex(res.before, a) < MapIndex(res.before, b)

\* The evictions made for the i-th unplaced item.
EvictionsOf(i) == { g \in Evictions : EvictionFor(g) = res.unplaced[i].itemId }

\* The container of a placement of the i-th unplaced item that no eviction
\* accounts for, NoId when there is none.
DirectContainer(i) ==
  LET entries == { k \in DOMAIN res.placements :
                     res.placements[k].itemId = res.unplaced[i].itemId }
  IN IF Cardinality(entries) > Cardinality(EvictionsOf(i))
     THEN res.placements[CHOOSE k \in entries : \A j \in entries : j <= k].containerId
     ELSE NoId

\* The containers in which the i-th unplaced item was placed, by an
\* eviction or directly.
ContainersUsed(i) ==
  { res.rearrangements[3 * g - 2].fromContainer : g \in EvictionsOf(i) }
    \cup (IF DirectContainer(i) = NoId THEN {} ELSE { DirectContainer(i) })

\* The containers when the turn of the i-th unplaced item reaches the
\* container: the evictions made for it in earlier containers are done.
WhenTried(i, containerId) ==
  LET earlier == { g \in EvictionsOf(i) :
                     TriedBefore(i, res.rearrangements[3 * g - 2].fromContainer, containerId) }
      last == IF earlier = {} THEN 0 ELSE CHOOSE g \in earlier : \A h \in earlier : h <= g
  IN AfterEvictionsFor(AfterTurns(i - 1), res.unplaced[i].itemId, 1, last)

\* The container was tried for the i-th unplaced item and gave nothing: the
\* item fits nowhere in it, and no eligible occupant frees the space.
TriedInVain(i, containerId) ==
  LET cm == WhenTried(i, containerId)
      c == cm[MapIndex(cm, containerId)]
  IN /\ FitOrigins(res.unplaced[i], c) = {}
     /\ \A j \in Eligible(c, res.unplaced[i]) : ~ FreesSpace(c, j, res.unplaced[i])

\* C29: in the turn of each unplaced item the containers are tried by
\* available volume as measured when the turn starts, largest first: the
\* evictions made for the item, and its direct placement after them, go
\* through containers of non-increasing volume; a container of strictly
\* larger volume than one the item was placed in was used too or had been
\* tried in vain; and an eviction is made only in a container the item did
\* not fit directly.
C29_LargestVolumeFirst ==
  res.op = "resolve" =>
    \A i \in DOMAIN res.unplaced :
      /\ \A g, h \in EvictionsOf(i) :
           g < h => VolumeAtTurn(i, res.rearrangements[3 * g - 2].fromContainer)
                      >= VolumeAtTurn(i, res.rearrangements[3 * h - 2].fromContainer)
      /\ DirectContainer(i) # NoId =>
           \A g \in EvictionsOf(i) :
             VolumeAtTurn(i, res.rearrangements[3 * g - 2].fromContainer)
               >= VolumeAtTurn(i, DirectContainer(i))
      /\ \A used \in ContainersUsed(i) :
           \A k \in DOMAIN res.before :
             VolumeAtTurn(i, res.before[k].containerId) > VolumeAtTurn(i, used) =>
               \/ res.before[k].containerId \in ContainersUsed(i)
               \/ TriedInVain(i, res.before[k].containerId)
      /\ \A g \in EvictionsOf(i) :
           LET cm == BeforeEviction(g)
           IN FitOrigins(res.unplaced[i],
                         cm[MapIndex(cm, res.rearrangements[3 * g - 2].fromContainer)]) = {}

\* An unplaced item was placed in a container while a container of strictly
\* larger available volume, holding a record, had been tried in vain.
C29_Witness ==
  /\ res.op = "resolve"
  /\ \E i \in DOMAIN res.unplaced :
       \E used \in ContainersUsed(i) :
         \E k \in DOMAIN res.before :
           /\ VolumeAtTurn(i, res.before[k].containerId) > VolumeAtTurn(i, used)
           /\ res.before[k].containerId \notin ContainersUsed(i)
           /\ Len(res.before[k].items) >= 1
           /\ TriedInVain(i, res.before[k].containerId)

\* C30: in the result of findOptimalPlacement no two entries of placements
\* that name the same container have boxes whose intersection has positive
\* length on all three axes.
C30_PlacementsDisjoint ==
  res.op = "placement" =>
    \A j, k \in DOMAIN res.placements :
      (j # k /\ res.placements[j].containerId = res.placements[k].containerId) =>
        ~ Interpenetrate(res.placements[j].position, res.placements[k].position)

\* C31: each item id given to findOptimalPlacement or to
\* rearrangeForUnplacedItems has at most one entry in the returned
\* placements, and when the call returns at most one working container
\* holds a record of it.
C31_PlacedAtMostOnce ==
  res.op \in { "resolve", "placement" } =>
    \A id \in ItemIds :
      /\ Cardinality({ k \in DOMAIN res.placements : res.placements[k].itemId = id }) <= 1
      /\ Cardinality(Holders(res.after, id)) <= 1

\* C32: eviction is decided from the item store as it is when the call is
\* made: every remove step of rearrangeForUnplacedItems, called directly or
\* by a placement request, names an occupant that the store held then with
\* a priority strictly below that of the unplaced item placed in the next
\* step, and a placement request none of whose items the store held
\* returns an empty transcript.
C32_EligibilityFromStore ==
  [][ res'.op \in { "resolve", "placement" } =>
        /\ \A k \in DOMAIN res'.rearrangements :
             res'.rearrangements[k].action = "remove" =>
               /\ items[res'.rearrangements[k].itemId] # Null
               /\ \E i \in DOMAIN res'.unplaced :
                    /\ res'.unplaced[i].itemId = res'.rearrangements[k + 1].itemId
                    /\ items[res'.rearrangements[k].itemId].priority
                         < res'.unplaced[i].priority
        /\ (/\ res'.op = "placement"
            /\ \A i \in DOMAIN res'.batch : items[res'.batch[i].itemId] = Null) =>
             res'.rearrangements = << >>
    ]_vars

\* rearrangeForUnplacedItems left an item out and returned an empty
\* transcript although a container held an occupant of lower record
\* priority whose removal frees the space: the store has no such item.
C32_Witness ==
  /\ res.op = "resolve"
  /\ res.rearrangements = << >>
  /\ \E i \in DOMAIN res.unplaced :
       /\ \A k \in DOMAIN res.placements : res.placements[k].itemId # res.unplaced[i].itemId
       /\ \E k \in DOMAIN res.before :
            \E j \in 1..Len(res.before[k].items) :
              /\ res.before[k].items[j].priority < res.unplaced[i].priority
              /\ items[res.before[k].items[j].itemId] = Null
              /\ FreesSpace(res.before[k], j, res.unplaced[i])

\* C33: a placeItem call that answers success = false leaves the item
\* store and the records of every container as they were and writes no log
\* entry; in particular the item's record stays in its old container.
C33_PlaceItemFailsClean ==
  [][ (res'.op = "place" /\ ~ res'.success) =>
        /\ items' = items
        /\ containers' = containers
        /\ res'.logs = << >>
    ]_vars

\* placeItem refused, for want of room in a stored container, an item whose
\* record another call had put into a stored container.
C33_Witness ==
  /\ res.op = "place"
  /\ ~ res.success
  /\ items[res.itemId] # Null
  /\ containers[res.containerId] # Null
  /\ items[res.itemId].containerId # NoId
  /\ containers[items[res.itemId].containerId] # Null
  /\ findItem(containers[items[res.itemId].containerId], res.itemId) # Null

\* C34: in every reachable state the occupied volume of each stored
\* container, the sum of width * depth * height over its records, is at
\* most its total volume: the available volume is never negative.
C34_VolumeWithinTotal ==
  \A id \in ContainerIds :
    containers[id] # Null => getAvailableVolume(containers[id]) >= 0

\* The stored items that are waste, lowest stored priority first.
WasteByPriority == sortWaste(identifyWasteItems(items, currentDate), items)

\* The mass of the first n waste items, in that order, that a selection
\* takes which takes an item exactly when its mass fits the weight left.
RECURSIVE TakenWeight(_, _)
TakenWeight(n, maxWeight) ==
  IF n = 0 THEN 0
  ELSE LET before == TakenWeight(n - 1, maxWeight)
       IN IF before + WasteByPriority[n].mass <= maxWeight
          THEN before + WasteByPriority[n].mass
          ELSE before

Taken(maxWeight) ==
  LET fits(n) == TakenWeight(n - 1, maxWeight) + WasteByPriority[n].mass <= maxWeight
      taken == SelectSeq([n \in DOMAIN WasteByPriority |-> n], fits)
  IN [k \in DOMAIN taken |-> WasteByPriority[taken[k]].itemId]

C36_ClockAdvances ==
  [][ (res'.op = "simulate" /\ res'.success /\ res'.numOfDays >= 1) =>
        currentDate' = currentDate + res'.numOfDays
    ]_vars

\* The uses left of a stored item, NullNumber for an absent one.
UsesLeft(dbItems, id) ==
  IF dbItems[id] = Null THEN NullNumber ELSE dbItems[id].remainingUses

====
